---- MODULE Spec2Model ----
(***************************************************************************)
(* Galaxies-Server: the concurrent game-state engine.                      *)
(*                                                                         *)
(* The world state (CurrentUniverse, PlayerShip, AvailableContracts,       *)
(* Market), the one RWMutex that guards it (DataLock), the HTTP handlers   *)
(* that mutate it, the market heartbeat (MarketTick + ReplenishMarket) and *)
(* the hot reload (LoadConfig).                                            *)
(*                                                                         *)
(* Heat values are float64 in the source.  Every value the program stores  *)
(* is a sum of 1.0, multiples of 0.01 and multiples of 0.05, so heat is    *)
(* kept here in hundredths: 1.0 is 100, the acceptance impact of one unit  *)
(* is 1, the delivery impact of one unit is 2, the recovery rate is 5.     *)
(***************************************************************************)
EXTENDS Integers, Sequences, FiniteSets, TLC

VARIABLES
    CurrentUniverse,    \* game.CurrentUniverse: the loaded Universe
    PlayerShip,         \* game.PlayerShip
    AvailableContracts, \* game.AvailableContracts: planet key -> board
    Market,             \* game.Market: SourceHeat and DestHeat
    DataLock,           \* game.DataLock: "free" or the goroutine holding Lock()
    pc,                 \* position of the goroutines main, heartbeat, reload and of
                        \* the request goroutines handler (an accept) and reader
    scan,               \* locals of the ReplenishMarket scan that holds the lock
    request,            \* locals of the accept that holds the lock
    env,                \* the environment: what universe.yaml can hold, how ids are drawn
    events,             \* heartbeat cycles, SIGHUP reloads and 200 responses so far
    clash,              \* a generated id was the id of a contract then alive
    last,               \* the operation that acted last, its outcome, what a 200 was for
    pulse,              \* the message the heartbeat goroutine is sending on Broadcast
    clients,            \* Hub.clients: the registered clients
    conn,               \* per client: its send channel and the position of its goroutines
    frames              \* the frames the read pumps hold, and the record of the
                        \* broadcasts the hub processed and of the frames written

worldVars == <<CurrentUniverse, PlayerShip, AvailableContracts, Market>>
gameVars == <<CurrentUniverse, PlayerShip, AvailableContracts, Market, DataLock, pc, scan,
              request, env, events, clash, last, pulse>>
hubVars == <<clients, conn, frames>>
vars == <<gameVars, hubVars>>

-----------------------------------------------------------------------------
(* Go arithmetic *)

\* Go's integer division truncates toward zero.
Quot(a, b) == IF a >= 0 THEN a \div b ELSE -((-a) \div b)

Max(a, b) == IF a >= b THEN a ELSE b
Min(a, b) == IF a <= b THEN a ELSE b

RECURSIVE SumSeq(_)
SumSeq(s) == IF s = <<>> THEN 0 ELSE Head(s) + SumSeq(Tail(s))

SeqToSet(s) == {s[i] : i \in 1..Len(s)}

\* a removal that removes nothing
KeepAt(s, i) == s

\* s without its element at index i: append(s[:i], s[i+1:]...)
RemoveAt(s, i) == [j \in 1..(Len(s) - 1) |-> IF j < i THEN s[j] ELSE s[j + 1]]

\* index of the first element of s whose ID is id, 0 when there is none
\* (the handlers' "foundIdx := -1 ... break" loops)
FindByID(s, id) ==
    IF \E i \in 1..Len(s) : s[i].ID = id
    THEN CHOOSE i \in 1..Len(s) : s[i].ID = id /\ \A j \in 1..(i - 1) : s[j].ID # id
    ELSE 0

-----------------------------------------------------------------------------
(* Heat, in hundredths *)

Neutral == 100          \* 1.0
AcceptImpact == 1       \* 0.01 per unit accepted
DeliveryImpact == 2     \* 0.02 per unit delivered
RecoveryRate == 5       \* 0.05 per tick
ScarcityThreshold == 150 \* 1.5

\* h[p][c], Go's zero value when the entry is missing
HeatGet(h, p, c) == IF p \in DOMAIN h /\ c \in DOMAIN h[p] THEN h[p][c] ELSE 0

\* h[p][c] = v for an existing inner map h[p] (the entry c is created if missing)
HeatSet(h, p, c, v) == [h EXCEPT ![p] = (c :> v) @@ h[p]]

-----------------------------------------------------------------------------
(* The world definition (universe.yaml), as LoadConfig unmarshals it *)

Prime == "planet_prime"     \* the hub location LoadConfig and HandleBuyModule name
PassengerItem == "passenger" \* the ItemKey generatePassengerJobs gives every passenger job

\* The zero value of game.Universe: what CurrentUniverse holds before the first load.
ZeroShip ==
    [LocationKey |-> "", Credits |-> 0, Fuel |-> 0, MaxFuel |-> 0,
     BaseBurnRate |-> 0, BurnDamping |-> 0, BaseMass |-> 0,
     CargoCapacity |-> 0, PassengerSlots |-> 0, MaxModuleSlots |-> 0,
     InstalledModules |-> <<>>, ActiveContracts |-> <<>>]

ZeroUniverse ==
    [BalanceConfig |-> [StartingCredits |-> 0, FuelCostPerUnit |-> 0,
                        FuelMassPerUnit |-> 0, DistancePayoutMult |-> 0],
     PlayerShipConfig |-> ZeroShip,
     Commodities |-> <<>>,
     Planets |-> <<>>,
     ShipModules |-> <<>>,
     PassengerConfig |-> [BaseTicketPrice |-> 0, MassPerPassenger |-> 0]]

\* The ship template of the world definitions below.  Fuel, Credits, LocationKey
\* and the two lists are overwritten by LoadConfig when it resets the ship.
ShipTemplate ==
    [ZeroShip EXCEPT !.MaxFuel = 1000, !.BaseBurnRate = 100, !.BurnDamping = 1000,
                     !.BaseMass = 1000, !.CargoCapacity = 25, !.PassengerSlots = 1,
                     !.MaxModuleSlots = 1]

\* Two locations five light years apart; planet_prime produces ore.  The catalog
\* has a module that adds a cabin and one whose plating takes hold space.
UniverseA ==
    [BalanceConfig |-> [StartingCredits |-> 10, FuelCostPerUnit |-> 2,
                        FuelMassPerUnit |-> 1, DistancePayoutMult |-> 1],
     PlayerShipConfig |-> ShipTemplate,
     Commodities |-> << [Key |-> "ore", BaseValue |-> 2, Mass |-> 40] >>,
     Planets |-> <<
        [Key |-> Prime, Coordinates |-> <<0, 0>>, Production |-> <<"ore">>,
         MinCargo |-> 1, MaxCargo |-> 2, MinPassengers |-> 0, MaxPassengers |-> 1],
        [Key |-> "b", Coordinates |-> <<3, 4>>, Production |-> <<>>,
         MinCargo |-> 0, MaxCargo |-> 1, MinPassengers |-> 1, MaxPassengers |-> 1] >>,
     ShipModules |-> <<
        [Key |-> "mod_cabin", Cost |-> 10,
         StatModifier |-> "passenger_slots", StatValue |-> 1],
        [Key |-> "mod_armor", Cost |-> 5,
         StatModifier |-> "cargo_capacity", StatValue |-> -10] >>,
     PassengerConfig |-> [BaseTicketPrice |-> 1, MassPerPassenger |-> 100]]

\* universe.yaml after an edit: planet b has given way to planet c, the ship
\* template has a larger hold and new games start with more credits.
UniverseT ==
    [UniverseA EXCEPT
        !.BalanceConfig.StartingCredits = 20,
        !.PlayerShipConfig = [ShipTemplate EXCEPT !.CargoCapacity = 30],
        !.Planets = <<
            [Key |-> Prime, Coordinates |-> <<0, 0>>, Production |-> <<"ore">>,
             MinCargo |-> 1, MaxCargo |-> 1, MinPassengers |-> 0, MaxPassengers |-> 1],
            [Key |-> "c", Coordinates |-> <<0, 5>>, Production |-> <<>>,
             MinCargo |-> 0, MaxCargo |-> 1, MinPassengers |-> 1, MaxPassengers |-> 1] >>,
        !.ShipModules = <<>>]

\* The same two keys, fifty light years apart (beyond the range of a full tank);
\* a ship with a large hold and no cabin, boards of three cargo jobs and no
\* passenger jobs, an empty module catalog.
UniverseS ==
    [UniverseA EXCEPT
        !.PlayerShipConfig = [ShipTemplate EXCEPT !.CargoCapacity = 75, !.PassengerSlots = 0],
        !.Planets = <<
            [Key |-> Prime, Coordinates |-> <<0, 0>>, Production |-> <<"ore">>,
             MinCargo |-> 3, MaxCargo |-> 3, MinPassengers |-> 0, MaxPassengers |-> 1],
            [Key |-> "b", Coordinates |-> <<30, 40>>, Production |-> <<>>,
             MinCargo |-> 0, MaxCargo |-> 1, MinPassengers |-> 1, MaxPassengers |-> 1] >>,
        !.ShipModules = <<>>]

\* UniverseS with a passenger wanted at planet_prime too, so that one scan
\* fills both boards of a planet.
UniverseR ==
    [UniverseS EXCEPT
        !.Planets = <<
            [Key |-> Prime, Coordinates |-> <<0, 0>>, Production |-> <<"ore">>,
             MinCargo |-> 3, MaxCargo |-> 3, MinPassengers |-> 1, MaxPassengers |-> 1],
            [Key |-> "b", Coordinates |-> <<30, 40>>, Production |-> <<>>,
             MinCargo |-> 0, MaxCargo |-> 1, MinPassengers |-> 1, MaxPassengers |-> 1] >>]

\* The ship of UniverseA among three locations: c is four light years from
\* planet_prime and five from b.
UniverseBurn ==
    [UniverseA EXCEPT
        !.Planets = <<
            [Key |-> Prime, Coordinates |-> <<0, 0>>, Production |-> <<"ore">>,
             MinCargo |-> 1, MaxCargo |-> 1, MinPassengers |-> 0, MaxPassengers |-> 1],
            [Key |-> "c", Coordinates |-> <<0, 4>>, Production |-> <<>>,
             MinCargo |-> 0, MaxCargo |-> 1, MinPassengers |-> 0, MaxPassengers |-> 1],
            [Key |-> "b", Coordinates |-> <<3, 8>>, Production |-> <<>>,
             MinCargo |-> 0, MaxCargo |-> 1, MinPassengers |-> 1, MaxPassengers |-> 1] >>,
        !.ShipModules = <<>>]

\* A ship on which mass tells ten times as much, between two locations three
\* light years apart.
UniverseLight ==
    [UniverseA EXCEPT
        !.PlayerShipConfig = [ShipTemplate EXCEPT !.BurnDamping = 100],
        !.Planets = <<
            [Key |-> Prime, Coordinates |-> <<0, 0>>, Production |-> <<"ore">>,
             MinCargo |-> 1, MaxCargo |-> 1, MinPassengers |-> 0, MaxPassengers |-> 1],
            [Key |-> "b", Coordinates |-> <<0, 3>>, Production |-> <<>>,
             MinCargo |-> 0, MaxCargo |-> 1, MinPassengers |-> 1, MaxPassengers |-> 1] >>,
        !.ShipModules = <<>>]

\* UniverseBurn as the older state.go unmarshals it: its GameBalance has
\* base_burn_rate and its Ship has engine_efficiency (the older Ship has no
\* base_burn_rate and no burn_damping; the record keeps the values of the file)
UniverseOld ==
    [UniverseBurn EXCEPT
        !.BalanceConfig = [BaseBurnRate |-> 100] @@ UniverseBurn.BalanceConfig,
        !.PlayerShipConfig = [Efficiency |-> 1000] @@ ShipTemplate]

PlanetKeys(U) == {U.Planets[i].Key : i \in 1..Len(U.Planets)}
CommodityKeys(U) == {U.Commodities[i].Key : i \in 1..Len(U.Commodities)}

-----------------------------------------------------------------------------
(* mechanics.go *)

\* GetPlanet: the first planet with that key, or Nil
Nil == [Key |-> "<nil>"]

GetPlanet(key) ==
    LET ps == CurrentUniverse.Planets IN
    IF \E i \in 1..Len(ps) : ps[i].Key = key
    THEN ps[CHOOSE i \in 1..Len(ps) : ps[i].Key = key /\ \A j \in 1..(i - 1) : ps[j].Key # key]
    ELSE Nil

GetCommodity(key) ==
    LET cs == CurrentUniverse.Commodities IN
    IF \E i \in 1..Len(cs) : cs[i].Key = key
    THEN cs[CHOOSE i \in 1..Len(cs) : cs[i].Key = key /\ \A j \in 1..(i - 1) : cs[j].Key # key]
    ELSE Nil

GetModule(key) ==
    LET ms == CurrentUniverse.ShipModules IN
    IF \E i \in 1..Len(ms) : ms[i].Key = key
    THEN ms[CHOOSE i \in 1..Len(ms) : ms[i].Key = key /\ \A j \in 1..(i - 1) : ms[j].Key # key]
    ELSE Nil

\* math.Round(math.Sqrt(n)) for an integer n >= 0: the d with (d - 1/2)^2 <= n < (d + 1/2)^2
RoundSqrt(n) ==
    CHOOSE d \in 0..(n + 1) :
        /\ d = 0 \/ (2 * d - 1) * (2 * d - 1) <= 4 * n
        /\ 4 * n < (2 * d + 1) * (2 * d + 1)

CalculateDistance(p1, p2) ==
    IF Len(p1) < 2 \/ Len(p2) < 2
    THEN 0
    ELSE RoundSqrt((p2[1] - p1[1]) * (p2[1] - p1[1]) + (p2[2] - p1[2]) * (p2[2] - p1[2]))

ContractMass(c) ==
    IF c.Type = "cargo"
    THEN c.MassPerUnit * c.Quantity
    ELSE CurrentUniverse.PassengerConfig.MassPerPassenger * c.Quantity

CalculateTotalMass ==
    PlayerShip.BaseMass
    + SumSeq([i \in 1..Len(PlayerShip.ActiveContracts) |-> ContractMass(PlayerShip.ActiveContracts[i])])
    + PlayerShip.Fuel * CurrentUniverse.BalanceConfig.FuelMassPerUnit

CalculateCurrentBurn ==
    LET halfFuel == Quot(PlayerShip.MaxFuel, 2)
        referenceMass == PlayerShip.BaseMass + halfFuel * CurrentUniverse.BalanceConfig.FuelMassPerUnit
        massDiff == CalculateTotalMass - referenceMass
        finalBurn == PlayerShip.BaseBurnRate + Quot(massDiff, PlayerShip.BurnDamping)
    IN IF finalBurn < 100 THEN 100 ELSE finalBurn

\* state.go of the older program: the fuel weighs per hundred units
CalculateTotalMassOld ==
    PlayerShip.BaseMass
    + SumSeq([i \in 1..Len(PlayerShip.ActiveContracts) |-> ContractMass(PlayerShip.ActiveContracts[i])])
    + Quot(PlayerShip.Fuel, 100) * CurrentUniverse.BalanceConfig.FuelMassPerUnit

\* state.go of the older program: no reference mass and no clamp
CalculateCurrentBurnOld ==
    CurrentUniverse.BalanceConfig.BaseBurnRate + Quot(CalculateTotalMassOld, PlayerShip.Efficiency)

-----------------------------------------------------------------------------
(* Bounds of the exploration *)

MaxEvents == 4      \* heartbeat cycles, SIGHUP reloads and 200 responses explored after boot
DrawLimit == 4      \* rand.Intn(n) is drawn in full for n <= DrawLimit, else at its two ends

\* the values of rand.Intn(n) the model draws
\* a draw that can return its argument
IntnInclusive(n) == IF n <= DrawLimit THEN 0..n ELSE {0, n}

Intn(n) == IF n <= DrawLimit THEN 0..(n - 1) ELSE {0, n - 1}

-----------------------------------------------------------------------------
(* economy.go *)

\* InitMarket: every planet of the loaded universe gets two fresh inner maps with
\* every commodity at 1.0; outer entries of other planets are left as they are.
InitMarketHeat(h, U) ==
    [p \in (DOMAIN h) \cup PlanetKeys(U) |->
        IF p \in PlanetKeys(U) THEN [c \in CommodityKeys(U) |-> Neutral] ELSE h[p]]

InitMarket(m, U) ==
    [SourceHeat |-> InitMarketHeat(m.SourceHeat, U),
     DestHeat |-> InitMarketHeat(m.DestHeat, U)]

\* an acceptance recorded with the impact of a delivery
RecordAcceptanceAsDelivery(m, originKey, itemKey, qty) ==
    IF originKey \notin DOMAIN m.SourceHeat
    THEN m
    ELSE [m EXCEPT !.SourceHeat =
            HeatSet(m.SourceHeat, originKey, itemKey,
                    HeatGet(m.SourceHeat, originKey, itemKey) + qty * DeliveryImpact)]

\* RecordAcceptance: no-op when the origin has no inner map
RecordAcceptance(m, originKey, itemKey, qty) ==
    IF originKey \notin DOMAIN m.SourceHeat
    THEN m
    ELSE [m EXCEPT !.SourceHeat =
            HeatSet(m.SourceHeat, originKey, itemKey,
                    HeatGet(m.SourceHeat, originKey, itemKey) + qty * AcceptImpact)]

\* RecordDelivery: no-op when the destination has no inner map
RecordDelivery(m, destKey, itemKey, qty) ==
    IF destKey \notin DOMAIN m.DestHeat
    THEN m
    ELSE [m EXCEPT !.DestHeat =
            HeatSet(m.DestHeat, destKey, itemKey,
                    HeatGet(m.DestHeat, destKey, itemKey) + qty * DeliveryImpact)]

\* a recovery that is not clamped at 1.0
CoolUnclamped(heat) ==
    IF heat > Neutral THEN heat - RecoveryRate
    ELSE IF heat < Neutral THEN heat + RecoveryRate
    ELSE heat

\* a decay by 5% of the distance to neutral, rounded to hundredths
CoolByDistance(heat) == heat - Quot(RecoveryRate * (heat - Neutral), 100)

\* one heat value after MarketTick
Cool(heat) ==
    IF heat > Neutral THEN Max(Neutral, heat - RecoveryRate)
    ELSE IF heat < Neutral THEN Min(Neutral, heat + RecoveryRate)
    ELSE heat

CoolAll(h) == [p \in DOMAIN h |-> [c \in DOMAIN h[p] |-> Cool(h[p][c])]]

\* the board of a planet key; a missing map entry reads as the empty slice
Board(key) == IF key \in DOMAIN AvailableContracts THEN AvailableContracts[key] ELSE <<>>

CountType(board, type) == Cardinality({i \in 1..Len(board) : board[i].Type = type})

\* the board targets ReplenishMarket uses for a planet, with its defaults
CargoTargets(origin) ==
    IF origin.MaxCargo = 0 THEN [min |-> 5, max |-> 15]
    ELSE [min |-> origin.MinCargo, max |-> origin.MaxCargo]

PaxTargets(origin) ==
    IF origin.MaxPassengers = 0 THEN [min |-> 2, max |-> 8]
    ELSE [min |-> origin.MinPassengers, max |-> origin.MaxPassengers]

\* every contract that is on a board or on the ship
LiveContracts ==
    UNION {SeqToSet(AvailableContracts[k]) : k \in DOMAIN AvailableContracts}
    \cup SeqToSet(PlayerShip.ActiveContracts)

LiveIDs == {c.ID : c \in LiveContracts}

\* The ids fmt.Sprintf("CRG-%d-%d", rand.Intn(99999), time.Now().UnixNano()%1000)
\* can give, up to renaming: an id no live contract has (the least one stands for
\* all of them), or the id of a live contract with the same prefix.
FreshID(prefix) ==
    <<prefix, CHOOSE n \in 1..(Cardinality(LiveIDs) + 1) :
                <<prefix, n>> \notin LiveIDs /\ \A m \in 1..(n - 1) : <<prefix, m>> \in LiveIDs>>

GeneratedIDs(prefix) ==
    {FreshID(prefix)} \cup (IF env.collide THEN {id \in LiveIDs : id[1] = prefix} ELSE {})

\* a destination drawn once, the origin included
DestinationsAny(origin) == SeqToSet(CurrentUniverse.Planets)

\* the planets generate*Jobs can settle on as destination: any but the origin
Destinations(origin) ==
    {CurrentUniverse.Planets[i] : i \in {j \in 1..Len(CurrentUniverse.Planets) :
                                            CurrentUniverse.Planets[j].Key # origin.Key}}

\* a payout that grows with the heat of the destination
ScalePayoutUp(basePayout, destHeat) == Quot(basePayout * destHeat, Neutral)

\* int(float64(basePayout) * (1.0 / destHeat)), with destHeat in hundredths
ScalePayout(basePayout, destHeat) == Quot(basePayout * Neutral, destHeat)

CargoJob(origin, comm, dest, qty, id) ==
    LET dist == CalculateDistance(origin.Coordinates, dest.Coordinates)
        destHeat == HeatGet(Market.DestHeat, dest.Key, comm.Key)
        basePayout == dist * CurrentUniverse.BalanceConfig.DistancePayoutMult
                      + Quot(comm.BaseValue * qty, 2)
    IN [ID |-> id, Type |-> "cargo", ItemKey |-> comm.Key, Quantity |-> qty,
        MassPerUnit |-> comm.Mass, OriginKey |-> origin.Key,
        DestinationKey |-> dest.Key, Payout |-> ScalePayout(basePayout, destHeat)]

PassengerJob(origin, dest, id) ==
    LET dist == CalculateDistance(origin.Coordinates, dest.Coordinates)
    IN [ID |-> id, Type |-> "passenger", ItemKey |-> PassengerItem, Quantity |-> 1,
        MassPerUnit |-> CurrentUniverse.PassengerConfig.MassPerPassenger,
        OriginKey |-> origin.Key, DestinationKey |-> dest.Key,
        Payout |-> dist * 15 + CurrentUniverse.PassengerConfig.BaseTicketPrice]


-----------------------------------------------------------------------------
(* hub.go: the hub goroutine (Hub.Run), and for every connection ServeWs,
   readPump and writePump.  The channels register, unregister and Broadcast are
   unbuffered: a sender stays at its send until Run receives from it. *)

MaxClients == 2     \* connections made in a run
QueueCap == 2       \* capacity of Client.send, 256 in the source

Clients == 1..MaxClients
System == 0         \* the heartbeat goroutine of main, which sends the market pulse

\* at: "none" (not connected), "register" (ServeWs is at hub.register <- client),
\*     "serving" (ServeWs has started the pumps)
\* reader: readPump at ReadMessage ("read"), at Broadcast <- message ("echo"),
\*         at unregister <- c ("unregister"), or returned ("done")
\* writer: writePump in its range over send ("range"), or returned ("done")
\* closed: how many times close(send) was called
NoClient == [at |-> "none", send |-> <<>>, closed |-> 0, reader |-> "none", writer |-> "none"]

\* held: the frame the readPump of a client has read and is sending on Broadcast
\* reads: the frames read so far
\* order: the frames of the broadcasts the hub has processed, in its order
\* got: per client, the frames its writePump has written to the connection
NoFrames == [held |-> [c \in Clients |-> <<>>], reads |-> 0, order |-> <<>>,
             got |-> [c \in Clients |-> <<>>]]

\* NewHub
InitHub ==
    /\ clients = {}
    /\ conn = [c \in Clients |-> NoClient]
    /\ frames = NoFrames

-----------------------------------------------------------------------------
(* The initial state: the package-level variables as Go constructs them *)

NoRequest == [id |-> <<>>, location |-> "", board |-> <<>>, foundIdx |-> 0, target |-> Nil]

ScanIdle == [phase |-> "none", i |-> 0, k |-> 0, updated |-> <<>>, before |-> <<>>]

\* files: the contents universe.yaml can have when it is read; collide: whether
\* the random id of a new contract can be the id of a live one
InitWorld(files, collide) ==
    /\ env = [files |-> files, collide |-> collide]
    /\ CurrentUniverse = ZeroUniverse
    /\ PlayerShip = ZeroShip
    /\ AvailableContracts = <<>>
    /\ Market = [SourceHeat |-> <<>>, DestHeat |-> <<>>]
    /\ DataLock = "free"
    /\ pc = [main |-> "load", heartbeat |-> "idle", reload |-> "idle",
             handler |-> "idle", reader |-> "idle"]
    /\ scan = ScanIdle
    /\ request = NoRequest
    /\ events = 0
    /\ clash = FALSE
    /\ pulse = <<>>
    /\ last = [op |-> "init", res |-> "ok", arg |-> <<>>]

Init == InitWorld({UniverseA}, FALSE) /\ InitHub

\* a step of the game state: its outcome is recorded, the hub is not involved
DidFor(op, res, arg) ==
    /\ last' = [op |-> op, res |-> res, arg |-> arg]
    /\ UNCHANGED <<hubVars, request, pulse>>
Did(op, res) == DidFor(op, res, <<>>)

\* a lock that never makes anyone wait
LockNeverWaits == TRUE

\* DataLock.Lock() returns: nobody holds the lock
CanLock == DataLock = "free"

\* the HTTP server runs once main has loaded the world and seeded the boards
Serving == pc.main = "serve"

-----------------------------------------------------------------------------
(* state.go: LoadConfig, called by main at boot and by the SIGHUP goroutine *)

\* the ship after LoadConfig's step 5
\* a load that resets the ship whatever its location
ResetShipAlways(ship, U) ==
    [U.PlayerShipConfig EXCEPT
        !.Fuel = U.PlayerShipConfig.MaxFuel,
        !.LocationKey = Prime,
        !.Credits = U.BalanceConfig.StartingCredits,
        !.ActiveContracts = <<>>,
        !.InstalledModules = <<>>]

ResetShip(ship, U) ==
    IF ship.LocationKey = ""
    THEN [U.PlayerShipConfig EXCEPT
            !.Fuel = U.PlayerShipConfig.MaxFuel,
            !.LocationKey = Prime,
            !.Credits = U.BalanceConfig.StartingCredits,
            !.ActiveContracts = <<>>,
            !.InstalledModules = <<>>]
    ELSE ship

\* p is about to call LoadConfig
AtLoad(p) ==
    \/ p = "main" /\ pc.main = "load"
    \/ p = "reload" /\ pc.reload = "idle" /\ Serving /\ events < MaxEvents

\* universe.yaml is read and unmarshalled into U
LoadConfig(p, U) ==
    /\ AtLoad(p)
    /\ CanLock
    /\ CurrentUniverse' = U
    /\ Market' = InitMarket(Market, U)
    /\ PlayerShip' = ResetShip(PlayerShip, U)
    /\ pc' = [pc EXCEPT ![p] = "tick"]
    /\ events' = IF p = "reload" THEN events + 1 ELSE events
    /\ Did("load", "ok")
    /\ UNCHANGED <<AvailableContracts, DataLock, scan, env, clash>>

\* universe.yaml is unreadable or malformed: LoadConfig returns the error before
\* it assigns anything; main exits (log.Fatalf), the SIGHUP goroutine goes on
LoadConfigFail(p) ==
    /\ AtLoad(p)
    /\ CanLock
    /\ pc' = [pc EXCEPT ![p] = IF p = "main" THEN "exit" ELSE "idle"]
    /\ events' = IF p = "reload" THEN events + 1 ELSE events
    /\ Did("load", "error")
    /\ UNCHANGED <<worldVars, DataLock, scan, env, clash>>

\* the SIGHUP goroutine of the older main.go (package main at the repository
\* root): "LoadConfig(); ReplenishMarket()" drops the error and goes on
LoadConfigFailIgnored ==
    /\ AtLoad("reload")
    /\ CanLock
    /\ pc' = [pc EXCEPT !.reload = "tick"]
    /\ events' = events + 1
    /\ Did("load", "error")
    /\ UNCHANGED <<worldVars, DataLock, scan, env, clash>>

-----------------------------------------------------------------------------
(* economy.go: MarketTick and ReplenishMarket *)

\* p is about to call ReplenishMarket (whose first statement is MarketTick())
AtReplenish(p) ==
    \/ p \in {"main", "reload"} /\ pc[p] = "tick"
    \/ p = "heartbeat" /\ pc.heartbeat = "idle" /\ Serving /\ events < MaxEvents

MarketTick(p) ==
    /\ AtReplenish(p)
    /\ CanLock
    /\ Market' = [SourceHeat |-> CoolAll(Market.SourceHeat),
                  DestHeat |-> CoolAll(Market.DestHeat)]
    /\ pc' = [pc EXCEPT ![p] = "scan"]
    /\ events' = IF p = "heartbeat" THEN events + 1 ELSE events
    /\ Did("tick", "ok")
    /\ UNCHANGED <<CurrentUniverse, PlayerShip, AvailableContracts, DataLock, scan, env, clash>>

\* the number of contracts of each type on every board
BoardCounts ==
    [key \in DOMAIN AvailableContracts |->
        [cargo |-> CountType(AvailableContracts[key], "cargo"),
         passenger |-> CountType(AvailableContracts[key], "passenger")]]

\* ReplenishMarket takes the lock for its board scan
ScanBegin(p) ==
    /\ pc[p] = "scan"
    /\ CanLock
    /\ DataLock' = p
    /\ scan' = [phase |-> "cargo", i |-> 1, k |-> 0, updated |-> <<>>, before |-> BoardCounts]
    /\ Did("scan", "begin")
    /\ UNCHANGED <<worldVars, pc, env, events, clash>>

Scanning == DataLock # "free" /\ pc[DataLock] = "scan"

Origin == CurrentUniverse.Planets[scan.i]

\* all planets done: the loop "for i := range CurrentUniverse.Planets" is over
ScanDone == scan.i > Len(CurrentUniverse.Planets)

\* a cargo check that generates the whole target whatever the board holds
ScanCargoCheckIgnoresCount ==
    /\ Scanning /\ scan.phase = "cargo" /\ ~ScanDone
    /\ LET t == CargoTargets(Origin)
           currentCargoCount == CountType(Board(Origin.Key), "cargo")
       IN IF currentCargoCount < t.min
          THEN \E r \in Intn(t.max - t.min + 1) :
                  LET needed == r + t.min IN
                  IF needed > 0
                  THEN scan' = [scan EXCEPT !.phase = "genCargo", !.k = needed,
                                            !.updated = Append(@, Origin.Key)]
                  ELSE scan' = [scan EXCEPT !.phase = "pax"]
          ELSE scan' = [scan EXCEPT !.phase = "pax"]
    /\ Did("scan", "cargoCheck")
    /\ UNCHANGED <<worldVars, DataLock, pc, env, events, clash>>

\* the cargo check of planet scan.i: count, draw the target, compute needed
ScanCargoCheck ==
    /\ Scanning /\ scan.phase = "cargo" /\ ~ScanDone
    /\ LET t == CargoTargets(Origin)
           currentCargoCount == CountType(Board(Origin.Key), "cargo")
       IN IF currentCargoCount < t.min
          THEN \E r \in Intn(t.max - t.min + 1) :
                  LET needed == (r + t.min) - currentCargoCount IN
                  IF needed > 0
                  THEN scan' = [scan EXCEPT !.phase = "genCargo", !.k = needed,
                                            !.updated = Append(@, Origin.Key)]
                  ELSE scan' = [scan EXCEPT !.phase = "pax"]
          ELSE scan' = [scan EXCEPT !.phase = "pax"]
    /\ Did("scan", "cargoCheck")
    /\ UNCHANGED <<worldVars, DataLock, pc, env, events, clash>>

\* the commodities step 1 of generateCargoJobs can pick: a production key that
\* resolves (80% path), or any commodity (fallback and 20% path)
CargoCommodities(origin) ==
    {GetCommodity(origin.Production[j]) : j \in {x \in 1..Len(origin.Production) :
                                                  GetCommodity(origin.Production[x]) # Nil}}
    \cup SeqToSet(CurrentUniverse.Commodities)

\* step 2 of generateCargoJobs: rand.Float64()*sourceHeat > 1.5 has a solution
\* with rand.Float64() in [0, 1) exactly when sourceHeat > 1.5
CanSkip(sourceHeat) == sourceHeat > Neutral /\ sourceHeat > ScarcityThreshold

AppendJob(origin, job) ==
    /\ AvailableContracts' = (origin.Key :> Append(Board(origin.Key), job)) @@ AvailableContracts
    /\ clash' = (clash \/ job.ID \in LiveIDs)

\* one iteration of the loop of generateCargoJobs: the commodity is picked, then
\* either the scarcity check hits "continue" or a job is appended
GenerateCargoJob ==
    /\ Scanning /\ scan.phase = "genCargo" /\ scan.k > 0
    /\ \E comm \in CargoCommodities(Origin) :
          \/ /\ CanSkip(HeatGet(Market.SourceHeat, Origin.Key, comm.Key))
             /\ Did("scan", "cargoSkip")
             /\ UNCHANGED <<AvailableContracts, clash>>
          \/ /\ \E dest \in Destinations(Origin), q \in Intn(21), id \in GeneratedIDs("CRG") :
                    AppendJob(Origin, CargoJob(Origin, comm, dest, q + 5, id))
             /\ Did("scan", "cargoJob")
    /\ scan' = [scan EXCEPT !.k = @ - 1, !.phase = IF scan.k = 1 THEN "pax" ELSE @]
    /\ UNCHANGED <<CurrentUniverse, PlayerShip, Market, DataLock, pc, env, events>>

\* a passenger check that appends the key without looking for it in the list
ScanPassengerCheckNoDedup ==
    /\ Scanning /\ scan.phase = "pax" /\ ~ScanDone
    /\ LET t == PaxTargets(Origin)
           currentPaxCount == CountType(Board(Origin.Key), "passenger")
           next == [scan EXCEPT !.phase = "cargo", !.i = @ + 1]
       IN IF currentPaxCount < t.min
          THEN \E r \in Intn(t.max - t.min + 1) :
                  LET needed == (r + t.min) - currentPaxCount IN
                  IF needed > 0
                  THEN scan' = [scan EXCEPT !.phase = "genPax", !.k = needed,
                                  !.updated = Append(@, Origin.Key)]
                  ELSE scan' = next
          ELSE scan' = next
    /\ Did("scan", "paxCheck")
    /\ UNCHANGED <<worldVars, DataLock, pc, env, events, clash>>

\* the passenger check of planet scan.i
ScanPassengerCheck ==
    /\ Scanning /\ scan.phase = "pax" /\ ~ScanDone
    /\ LET t == PaxTargets(Origin)
           currentPaxCount == CountType(Board(Origin.Key), "passenger")
           next == [scan EXCEPT !.phase = "cargo", !.i = @ + 1]
       IN IF currentPaxCount < t.min
          THEN \E r \in Intn(t.max - t.min + 1) :
                  LET needed == (r + t.min) - currentPaxCount IN
                  IF needed > 0
                  THEN scan' = [scan EXCEPT !.phase = "genPax", !.k = needed,
                                  !.updated = IF Origin.Key \in SeqToSet(@) THEN @
                                              ELSE Append(@, Origin.Key)]
                  ELSE scan' = next
          ELSE scan' = next
    /\ Did("scan", "paxCheck")
    /\ UNCHANGED <<worldVars, DataLock, pc, env, events, clash>>

\* one iteration of the loop of generatePassengerJobs
GeneratePassengerJob ==
    /\ Scanning /\ scan.phase = "genPax" /\ scan.k > 0
    /\ \E dest \in Destinations(Origin), id \in GeneratedIDs("PAX") :
            AppendJob(Origin, PassengerJob(Origin, dest, id))
    /\ scan' = IF scan.k = 1 THEN [scan EXCEPT !.k = 0, !.phase = "cargo", !.i = @ + 1]
               ELSE [scan EXCEPT !.k = @ - 1]
    /\ Did("scan", "paxJob")
    /\ UNCHANGED <<CurrentUniverse, PlayerShip, Market, DataLock, pc, env, events>>

\* ReplenishMarket returns updatedPlanets and its deferred Unlock runs.
ScanEnd(p) ==
    /\ Scanning /\ DataLock = p /\ scan.phase = "cargo" /\ ScanDone
    /\ DataLock' = "free"
    /\ pc' = [pc EXCEPT ![p] = IF p = "main" THEN "serve" ELSE "idle"]
    /\ scan' = ScanIdle
    /\ Did("scan", "end")
    /\ UNCHANGED <<worldVars, env, events, clash>>

-----------------------------------------------------------------------------
(* handlers.go: each handler holds DataLock.Lock() from its first read of the
   world to its return, so it is one step.  What a request can name is drawn
   from the keys of the world and one key the world does not have. *)

UnknownID == <<"CRG", 0>>
RequestIDs == LiveIDs \cup {UnknownID}
RequestPlanets == PlanetKeys(CurrentUniverse) \cup {"nowhere"}
RequestModules ==
    {CurrentUniverse.ShipModules[i].Key : i \in 1..Len(CurrentUniverse.ShipModules)}
    \cup {"mod_unknown"}

CanServe == Serving /\ CanLock

\* the handler returns (its deferred Unlock runs); arg is what the request named
Handled(op, res, arg) ==
    /\ DidFor(op, res, arg)
    /\ UNCHANGED <<CurrentUniverse, DataLock, pc, scan, env, clash>>

\* the handler answers 200
Served(op, arg) ==
    /\ events < MaxEvents
    /\ events' = events + 1
    /\ Handled(op, "ok", <<arg>>)

\* the handler answers with http.Error and returns
Rejected(op, res) ==
    /\ events' = events
    /\ Handled(op, res, <<>>)
    /\ UNCHANGED <<PlayerShip, AvailableContracts, Market>>

\* the units of one type the ship carries (every type but "cargo" counts as passenger)
Loaded(contracts, type) ==
    SumSeq([i \in 1..Len(contracts) |->
              IF (contracts[i].Type = "cargo") = (type = "cargo")
              THEN contracts[i].Quantity ELSE 0])

\* an accept that appends the contract to the ship before it validates the capacity
HandleAcceptAppendsFirst(id) ==
    /\ CanServe
    /\ LET location == PlayerShip.LocationKey
           board == Board(location)
           foundIdx == FindByID(board, id)
       IN IF foundIdx = 0
          THEN Rejected("accept", "notFound")
          ELSE LET target == board[foundIdx]
                   full == \/ target.Type = "cargo"
                              /\ Loaded(PlayerShip.ActiveContracts, "cargo") + target.Quantity
                                    > PlayerShip.CargoCapacity
                           \/ target.Type = "passenger"
                              /\ Loaded(PlayerShip.ActiveContracts, "passenger") + target.Quantity
                                    > PlayerShip.PassengerSlots
               IN /\ PlayerShip' = [PlayerShip EXCEPT !.ActiveContracts = Append(@, target)]
                  /\ IF full
                     THEN /\ events' = events
                          /\ Handled("accept", "cargoFull", <<>>)
                          /\ UNCHANGED <<AvailableContracts, Market>>
                     ELSE /\ AvailableContracts' =
                               (location :> RemoveAt(board, foundIdx)) @@ AvailableContracts
                          /\ Market' = RecordAcceptance(Market, target.OriginKey,
                                                        target.ItemKey, target.Quantity)
                          /\ Served("accept", id)

HandleAcceptContract(id) ==
    /\ CanServe
    /\ LET location == PlayerShip.LocationKey
           board == Board(location)
           foundIdx == FindByID(board, id)
       IN IF foundIdx = 0
          THEN Rejected("accept", "notFound")
          ELSE LET target == board[foundIdx]
                   currentCargo == Loaded(PlayerShip.ActiveContracts, "cargo")
                   currentPass == Loaded(PlayerShip.ActiveContracts, "passenger")
               IN IF target.Type = "cargo"
                     /\ currentCargo + target.Quantity > PlayerShip.CargoCapacity
                  THEN Rejected("accept", "cargoFull")
                  ELSE IF target.Type = "passenger"
                          /\ currentPass + target.Quantity > PlayerShip.PassengerSlots
                  THEN Rejected("accept", "passengersFull")
                  ELSE /\ PlayerShip' = [PlayerShip EXCEPT !.ActiveContracts = Append(@, target)]
                       /\ AvailableContracts' =
                            (location :> RemoveAt(board, foundIdx)) @@ AvailableContracts
                       /\ Market' = RecordAcceptance(Market, target.OriginKey,
                                                     target.ItemKey, target.Quantity)
                       /\ Served("accept", id)

\* a drop that hands the contract back to the board of its origin
HandleDropContractReturns(id) ==
    /\ CanServe
    /\ LET foundIdx == FindByID(PlayerShip.ActiveContracts, id)
       IN IF foundIdx = 0
          THEN Rejected("drop", "notFound")
          ELSE LET c == PlayerShip.ActiveContracts[foundIdx] IN
               /\ PlayerShip' = [PlayerShip EXCEPT !.ActiveContracts = RemoveAt(@, foundIdx)]
               /\ AvailableContracts' =
                      (c.OriginKey :> Append(Board(c.OriginKey), c)) @@ AvailableContracts
               /\ Served("drop", id)
               /\ UNCHANGED Market

HandleDropContract(id) ==
    /\ CanServe
    /\ LET foundIdx == FindByID(PlayerShip.ActiveContracts, id)
       IN IF foundIdx = 0
          THEN Rejected("drop", "notFound")
          ELSE /\ PlayerShip' = [PlayerShip EXCEPT !.ActiveContracts = RemoveAt(@, foundIdx)]
               /\ Served("drop", id)
               /\ UNCHANGED <<AvailableContracts, Market>>

\* a delivery loop that credits the payouts and records nothing
DeliverNone(m, cs) == m

\* the market after RecordDelivery for each contract of cs, in order
RECURSIVE DeliverAll(_, _)
DeliverAll(m, cs) ==
    IF cs = <<>> THEN m
    ELSE DeliverAll(RecordDelivery(m, Head(cs).DestinationKey, Head(cs).ItemKey,
                                   Head(cs).Quantity),
                    Tail(cs))

\* a travel that debits the fuel without looking at the tank
HandleTravelUnchecked(destKey) ==
    /\ CanServe
    /\ LET dest == GetPlanet(destKey)
           current == GetPlanet(PlayerShip.LocationKey)
       IN IF dest = Nil
          THEN Rejected("travel", "notFound")
          ELSE IF current = Nil
          THEN Rejected("travel", "panic")
          ELSE LET dist == CalculateDistance(current.Coordinates, dest.Coordinates)
                   fuelNeeded == dist * CalculateCurrentBurn
                   Arrived(c) == c.DestinationKey = dest.Key
                   Stays(c) == ~Arrived(c)
                   delivered == SelectSeq(PlayerShip.ActiveContracts, Arrived)
                   remainingContracts == SelectSeq(PlayerShip.ActiveContracts, Stays)
                   payoutTotal == SumSeq([i \in 1..Len(delivered) |-> delivered[i].Payout])
               IN /\ PlayerShip' = [PlayerShip EXCEPT
                                       !.Fuel = @ - fuelNeeded,
                                       !.LocationKey = dest.Key,
                                       !.ActiveContracts = remainingContracts,
                                       !.Credits = @ + payoutTotal]
                  /\ Market' = DeliverAll(Market, delivered)
                  /\ Served("travel", destKey)
                  /\ UNCHANGED AvailableContracts

HandleTravel(destKey) ==
    /\ CanServe
    /\ LET dest == GetPlanet(destKey)
           current == GetPlanet(PlayerShip.LocationKey)
       IN IF dest = Nil
          THEN Rejected("travel", "notFound")
          ELSE IF current = Nil
          THEN \* current.Coordinates dereferences nil: the handler panics before it
               \* mutates anything, its deferred Unlock runs, net/http recovers
               Rejected("travel", "panic")
          ELSE LET dist == CalculateDistance(current.Coordinates, dest.Coordinates)
                   currentBurn == CalculateCurrentBurn
                   fuelNeeded == dist * currentBurn
                   Arrived(c) == c.DestinationKey = dest.Key
                   Stays(c) == ~Arrived(c)
                   delivered == SelectSeq(PlayerShip.ActiveContracts, Arrived)
                   remainingContracts == SelectSeq(PlayerShip.ActiveContracts, Stays)
                   payoutTotal == SumSeq([i \in 1..Len(delivered) |-> delivered[i].Payout])
               IN IF PlayerShip.Fuel < fuelNeeded
                  THEN Rejected("travel", "fuel")
                  ELSE /\ PlayerShip' = [PlayerShip EXCEPT
                                            !.Fuel = @ - fuelNeeded,
                                            !.LocationKey = dest.Key,
                                            !.ActiveContracts = remainingContracts,
                                            !.Credits = @ + payoutTotal]
                       /\ Market' = DeliverAll(Market, delivered)
                       /\ Served("travel", destKey)
                       /\ UNCHANGED AvailableContracts

\* handleTravel of the older program (package main): the same steps with the
\* burn rate of the older state.go
handleTravel(destKey) ==
    /\ CanServe
    /\ LET dest == GetPlanet(destKey)
           current == GetPlanet(PlayerShip.LocationKey)
       IN IF dest = Nil
          THEN Rejected("travel", "notFound")
          ELSE IF current = Nil
          THEN Rejected("travel", "panic")
          ELSE LET dist == CalculateDistance(current.Coordinates, dest.Coordinates)
                   currentBurn == CalculateCurrentBurnOld
                   fuelNeeded == dist * currentBurn
                   Arrived(c) == c.DestinationKey = dest.Key
                   Stays(c) == ~Arrived(c)
                   delivered == SelectSeq(PlayerShip.ActiveContracts, Arrived)
                   remainingContracts == SelectSeq(PlayerShip.ActiveContracts, Stays)
                   payoutTotal == SumSeq([i \in 1..Len(delivered) |-> delivered[i].Payout])
               IN IF PlayerShip.Fuel < fuelNeeded
                  THEN Rejected("travel", "fuel")
                  ELSE /\ PlayerShip' = [PlayerShip EXCEPT
                                            !.Fuel = @ - fuelNeeded,
                                            !.LocationKey = dest.Key,
                                            !.ActiveContracts = remainingContracts,
                                            !.Credits = @ + payoutTotal]
                       /\ Market' = DeliverAll(Market, delivered)
                       /\ Served("travel", destKey)
                       /\ UNCHANGED AvailableContracts

\* the quote handler returns: nothing of the world is written
Quoted(res, arg) ==
    /\ events' = events
    /\ Handled("quote", res, arg)
    /\ UNCHANGED <<PlayerShip, AvailableContracts, Market>>

\* a quote that always says the trip can be afforded
HandleTravelQuoteAlwaysAffords(destKey) ==
    /\ CanServe
    /\ LET dest == GetPlanet(destKey)
           current == GetPlanet(PlayerShip.LocationKey)
       IN IF dest = Nil
          THEN Quoted("notFound", <<destKey>>)
          ELSE IF current = Nil
          THEN Quoted("panic", <<destKey>>)
          ELSE LET dist == CalculateDistance(current.Coordinates, dest.Coordinates)
                   currentBurn == CalculateCurrentBurn
                   fuelNeeded == dist * currentBurn
                   resp == [Distance |-> dist, FuelCost |-> fuelNeeded,
                            CanAfford |-> TRUE, BurnRate |-> currentBurn]
               IN Quoted("ok", <<destKey, resp>>)

\* HandleTravelQuote: under the read lock, the figures of a trip to destKey
HandleTravelQuote(destKey) ==
    /\ CanServe
    /\ LET dest == GetPlanet(destKey)
           current == GetPlanet(PlayerShip.LocationKey)
       IN IF dest = Nil
          THEN Quoted("notFound", <<destKey>>)
          ELSE IF current = Nil
          THEN \* current.Coordinates dereferences nil, as in HandleTravel
               Quoted("panic", <<destKey>>)
          ELSE LET dist == CalculateDistance(current.Coordinates, dest.Coordinates)
                   currentBurn == CalculateCurrentBurn
                   fuelNeeded == dist * currentBurn
                   resp == [Distance |-> dist, FuelCost |-> fuelNeeded,
                            CanAfford |-> PlayerShip.Fuel >= fuelNeeded,
                            BurnRate |-> currentBurn]
               IN Quoted("ok", <<destKey, resp>>)

\* a refuel that charges every started hundred of fuel
HandleRefuelRoundsUp ==
    /\ CanServe
    /\ LET fuelNeeded == PlayerShip.MaxFuel - PlayerShip.Fuel
           cost == Quot(fuelNeeded + 99, 100) * CurrentUniverse.BalanceConfig.FuelCostPerUnit
       IN IF fuelNeeded <= 0
          THEN Rejected("refuel", "full")
          ELSE IF PlayerShip.Credits < cost
          THEN Rejected("refuel", "credits")
          ELSE /\ PlayerShip' = [PlayerShip EXCEPT !.Credits = @ - cost,
                                                   !.Fuel = PlayerShip.MaxFuel]
               /\ Served("refuel", "")
               /\ UNCHANGED <<AvailableContracts, Market>>

\* a refuel that fills the tank before it looks at the credits
HandleRefuelFillsFirst ==
    /\ CanServe
    /\ LET fuelNeeded == PlayerShip.MaxFuel - PlayerShip.Fuel
           cost == Quot(fuelNeeded, 100) * CurrentUniverse.BalanceConfig.FuelCostPerUnit
       IN IF fuelNeeded <= 0
          THEN Rejected("refuel", "full")
          ELSE IF PlayerShip.Credits < cost
          THEN /\ PlayerShip' = [PlayerShip EXCEPT !.Fuel = PlayerShip.MaxFuel]
               /\ events' = events
               /\ Handled("refuel", "credits", <<>>)
               /\ UNCHANGED <<AvailableContracts, Market>>
          ELSE /\ PlayerShip' = [PlayerShip EXCEPT !.Credits = @ - cost,
                                                   !.Fuel = PlayerShip.MaxFuel]
               /\ Served("refuel", "")
               /\ UNCHANGED <<AvailableContracts, Market>>

HandleRefuel ==
    /\ CanServe
    /\ LET fuelNeeded == PlayerShip.MaxFuel - PlayerShip.Fuel
           cost == Quot(fuelNeeded, 100) * CurrentUniverse.BalanceConfig.FuelCostPerUnit
       IN IF fuelNeeded <= 0
          THEN Rejected("refuel", "full")
          ELSE IF PlayerShip.Credits < cost
          THEN Rejected("refuel", "credits")
          ELSE /\ PlayerShip' = [PlayerShip EXCEPT !.Credits = @ - cost,
                                                   !.Fuel = PlayerShip.MaxFuel]
               /\ Served("refuel", "")
               /\ UNCHANGED <<AvailableContracts, Market>>

\* a purchase that does not look at the module slots
HandleBuyModuleAnySlot(moduleKey) ==
    /\ CanServe
    /\ LET mod == GetModule(moduleKey)
       IN IF PlayerShip.LocationKey # Prime
          THEN Rejected("buy", "location")
          ELSE IF mod = Nil
          THEN Rejected("buy", "notFound")
          ELSE IF PlayerShip.Credits < mod.Cost
          THEN Rejected("buy", "credits")
          ELSE /\ PlayerShip' = [PlayerShip EXCEPT
                    !.Credits = @ - mod.Cost,
                    !.InstalledModules = Append(@, mod),
                    !.CargoCapacity = IF mod.StatModifier = "cargo_capacity"
                                      THEN @ + mod.StatValue ELSE @,
                    !.PassengerSlots = IF mod.StatModifier = "passenger_slots"
                                       THEN @ + mod.StatValue ELSE @]
               /\ Served("buy", moduleKey)
               /\ UNCHANGED <<AvailableContracts, Market>>

\* a purchase that does not look at the credits
HandleBuyModuleOnCredit(moduleKey) ==
    /\ CanServe
    /\ LET mod == GetModule(moduleKey)
       IN IF PlayerShip.LocationKey # Prime
          THEN Rejected("buy", "location")
          ELSE IF Len(PlayerShip.InstalledModules) >= PlayerShip.MaxModuleSlots
          THEN Rejected("buy", "slots")
          ELSE IF mod = Nil
          THEN Rejected("buy", "notFound")
          ELSE /\ PlayerShip' = [PlayerShip EXCEPT
                    !.Credits = @ - mod.Cost,
                    !.InstalledModules = Append(@, mod),
                    !.CargoCapacity = IF mod.StatModifier = "cargo_capacity"
                                      THEN @ + mod.StatValue ELSE @,
                    !.PassengerSlots = IF mod.StatModifier = "passenger_slots"
                                       THEN @ + mod.StatValue ELSE @]
               /\ Served("buy", moduleKey)
               /\ UNCHANGED <<AvailableContracts, Market>>

HandleBuyModule(moduleKey) ==
    /\ CanServe
    /\ LET mod == GetModule(moduleKey)
       IN IF PlayerShip.LocationKey # Prime
          THEN Rejected("buy", "location")
          ELSE IF Len(PlayerShip.InstalledModules) >= PlayerShip.MaxModuleSlots
          THEN Rejected("buy", "slots")
          ELSE IF mod = Nil
          THEN Rejected("buy", "notFound")
          ELSE IF PlayerShip.Credits < mod.Cost
          THEN Rejected("buy", "credits")
          ELSE /\ PlayerShip' = [PlayerShip EXCEPT
                    !.Credits = @ - mod.Cost,
                    !.InstalledModules = Append(@, mod),
                    !.CargoCapacity = IF mod.StatModifier = "cargo_capacity"
                                      THEN @ + mod.StatValue ELSE @,
                    !.PassengerSlots = IF mod.StatModifier = "passenger_slots"
                                       THEN @ + mod.StatValue ELSE @]
               /\ Served("buy", moduleKey)
               /\ UNCHANGED <<AvailableContracts, Market>>

-----------------------------------------------------------------------------
(* The specification of the world *)

Next ==
    \/ \E p \in {"main", "reload"}, U \in env.files : LoadConfig(p, U)
    \/ \E p \in {"main", "reload"} : LoadConfigFail(p)
    \/ \E p \in {"main", "reload", "heartbeat"} : MarketTick(p)
    \/ \E p \in {"main", "reload", "heartbeat"} : ScanBegin(p)
    \/ ScanCargoCheck
    \/ GenerateCargoJob
    \/ ScanPassengerCheck
    \/ GeneratePassengerJob
    \/ \E p \in {"main", "reload", "heartbeat"} : ScanEnd(p)
    \/ \E id \in RequestIDs : HandleAcceptContract(id)
    \/ \E id \in RequestIDs : HandleDropContract(id)
    \/ \E destKey \in RequestPlanets : HandleTravel(destKey)
    \/ HandleRefuel
    \/ \E moduleKey \in RequestModules : HandleBuyModule(moduleKey)

Spec == Init /\ [][Next]_vars

-----------------------------------------------------------------------------
(* The lock, statement by statement: HandleAcceptContract with one step per
   assignment to the world, next to a reader (HandleGetContracts), the boot and
   the heartbeat *)

\* a statement of a request goroutine: the lock, the world and the counters are
\* what the conjuncts beside it say
Stmt(op, res) ==
    /\ last' = [op |-> op, res |-> res, arg |-> <<>>]
    /\ UNCHANGED <<CurrentUniverse, scan, env, events, clash, pulse, hubVars>>

\* Lock() returns, the board of the current location is searched and the
\* capacity validated; a rejected request returns here (deferred Unlock)
AcceptBegin(id) ==
    /\ Serving /\ pc.handler = "idle"
    /\ events < MaxEvents
    /\ CanLock
    /\ LET location == PlayerShip.LocationKey
           board == Board(location)
           foundIdx == FindByID(board, id)
           target == board[foundIdx]
           rejected ==
              IF foundIdx = 0 THEN "notFound"
              ELSE IF target.Type = "cargo"
                      /\ Loaded(PlayerShip.ActiveContracts, "cargo") + target.Quantity
                            > PlayerShip.CargoCapacity
              THEN "cargoFull"
              ELSE IF target.Type = "passenger"
                      /\ Loaded(PlayerShip.ActiveContracts, "passenger") + target.Quantity
                            > PlayerShip.PassengerSlots
              THEN "passengersFull"
              ELSE "no"
       IN IF rejected # "no"
          THEN /\ Stmt("accept", rejected)
               /\ UNCHANGED <<worldVars, DataLock, pc, request>>
          ELSE /\ DataLock' = "handler"
               /\ pc' = [pc EXCEPT !.handler = "append"]
               /\ request' = [id |-> id, location |-> location, board |-> board,
                              foundIdx |-> foundIdx, target |-> target]
               /\ Stmt("accept", "found")
               /\ UNCHANGED worldVars

\* game.PlayerShip.ActiveContracts = append(..., target)
AcceptAppend ==
    /\ pc.handler = "append"
    /\ PlayerShip' = [PlayerShip EXCEPT !.ActiveContracts = Append(@, request.target)]
    /\ pc' = [pc EXCEPT !.handler = "remove"]
    /\ Stmt("accept", "appended")
    /\ UNCHANGED <<AvailableContracts, Market, DataLock, request>>

\* game.AvailableContracts[location] = append(board[:foundIdx], board[foundIdx+1:]...)
AcceptRemove ==
    /\ pc.handler = "remove"
    /\ AvailableContracts' =
          (request.location :> RemoveAt(request.board, request.foundIdx)) @@ AvailableContracts
    /\ pc' = [pc EXCEPT !.handler = "record"]
    /\ Stmt("accept", "removed")
    /\ UNCHANGED <<PlayerShip, Market, DataLock, request>>

\* a RecordAcceptance that takes the lock itself (as the unused method of the
\* older state.go does): Lock() inside the handler's own critical section
AcceptRecordLocks ==
    /\ pc.handler = "record"
    /\ CanLock
    /\ Market' = RecordAcceptance(Market, request.target.OriginKey,
                                  request.target.ItemKey, request.target.Quantity)
    /\ pc' = [pc EXCEPT !.handler = "return"]
    /\ Stmt("accept", "recorded")
    /\ UNCHANGED <<PlayerShip, AvailableContracts, DataLock, request>>

\* game.Market.RecordAcceptance(...)
AcceptRecord ==
    /\ pc.handler = "record"
    /\ Market' = RecordAcceptance(Market, request.target.OriginKey,
                                  request.target.ItemKey, request.target.Quantity)
    /\ pc' = [pc EXCEPT !.handler = "return"]
    /\ Stmt("accept", "recorded")
    /\ UNCHANGED <<PlayerShip, AvailableContracts, DataLock, request>>

\* the ship is encoded into the response and the deferred Unlock runs
AcceptReturn ==
    /\ pc.handler = "return"
    /\ DataLock' = "free"
    /\ pc' = [pc EXCEPT !.handler = "idle"]
    /\ request' = NoRequest
    /\ events' = events + 1
    /\ last' = [op |-> "accept", res |-> "ok", arg |-> <<request.id>>]
    /\ UNCHANGED <<worldVars, scan, env, clash, pulse, hubVars>>

\* RLock() returns when no writer holds the lock; there is one reader here
CanRLock == CanLock

\* HandleGetContracts: RLock
GetContractsRLock ==
    /\ Serving /\ pc.reader = "idle"
    /\ CanRLock
    /\ DataLock' = "reader"
    /\ pc' = [pc EXCEPT !.reader = "read"]
    /\ Stmt("read", "locked")
    /\ UNCHANGED <<worldVars, request>>

\* HandleGetContracts: the location and its board are read and encoded
GetContractsRead ==
    /\ pc.reader = "read"
    /\ pc' = [pc EXCEPT !.reader = "return"]
    /\ Stmt("read", "ok")
    /\ UNCHANGED <<worldVars, DataLock, request>>

\* HandleGetContracts: the deferred RUnlock
GetContractsReturn ==
    /\ pc.reader = "return"
    /\ DataLock' = "free"
    /\ pc' = [pc EXCEPT !.reader = "idle"]
    /\ Stmt("read", "unlocked")
    /\ UNCHANGED <<worldVars, request>>

LockNext ==
    \/ \E U \in env.files : LoadConfig("main", U)
    \/ LoadConfigFail("main")
    \/ \E p \in {"main", "heartbeat"} : MarketTick(p)
    \/ \E p \in {"main", "heartbeat"} : ScanBegin(p)
    \/ ScanCargoCheck
    \/ GenerateCargoJob
    \/ ScanPassengerCheck
    \/ GeneratePassengerJob
    \/ \E p \in {"main", "heartbeat"} : ScanEnd(p)
    \/ \E id \in RequestIDs : AcceptBegin(id)
    \/ AcceptAppend
    \/ AcceptRemove
    \/ AcceptRecord
    \/ AcceptReturn
    \/ GetContractsRLock
    \/ GetContractsRead
    \/ GetContractsReturn
    \/ \E destKey \in RequestPlanets : HandleTravel(destKey)
    \/ \E id \in RequestIDs : HandleDropContract(id)
    \/ HandleRefuel
    \/ \E moduleKey \in RequestModules : HandleBuyModule(moduleKey)

LockSpec == Init /\ [][LockNext]_vars

-----------------------------------------------------------------------------
(* Waiting for the lock: a handler that has decoded its request and calls
   Lock(), next to the boot, the heartbeat and SIGHUP reloads *)

\* HandleAcceptContract has decoded the request: its next statement is Lock()
AcceptArrives(id) ==
    /\ Serving /\ pc.handler = "idle"
    /\ events < MaxEvents
    /\ pc' = [pc EXCEPT !.handler = "lock"]
    /\ request' = [NoRequest EXCEPT !.id = id]
    /\ Stmt("accept", "arrived")
    /\ UNCHANGED <<worldVars, DataLock>>

\* Lock() returns: the board is searched and the capacity validated; a rejected
\* request returns here (deferred Unlock)
AcceptLock ==
    /\ pc.handler = "lock"
    /\ CanLock
    /\ LET location == PlayerShip.LocationKey
           board == Board(location)
           foundIdx == FindByID(board, request.id)
           target == board[foundIdx]
           rejected ==
              IF foundIdx = 0 THEN "notFound"
              ELSE IF target.Type = "cargo"
                      /\ Loaded(PlayerShip.ActiveContracts, "cargo") + target.Quantity
                            > PlayerShip.CargoCapacity
              THEN "cargoFull"
              ELSE IF target.Type = "passenger"
                      /\ Loaded(PlayerShip.ActiveContracts, "passenger") + target.Quantity
                            > PlayerShip.PassengerSlots
              THEN "passengersFull"
              ELSE "no"
       IN IF rejected # "no"
          THEN /\ pc' = [pc EXCEPT !.handler = "idle"]
               /\ request' = NoRequest
               /\ Stmt("accept", rejected)
               /\ UNCHANGED <<worldVars, DataLock>>
          ELSE /\ DataLock' = "handler"
               /\ pc' = [pc EXCEPT !.handler = "append"]
               /\ request' = [id |-> request.id, location |-> location, board |-> board,
                              foundIdx |-> foundIdx, target |-> target]
               /\ Stmt("accept", "found")
               /\ UNCHANGED worldVars

WaitNext ==
    \/ \E p \in {"main", "reload"}, U \in env.files : LoadConfig(p, U)
    \/ \E p \in {"main", "reload"} : LoadConfigFail(p)
    \/ \E p \in {"main", "reload", "heartbeat"} : MarketTick(p)
    \/ \E p \in {"main", "reload", "heartbeat"} : ScanBegin(p)
    \/ ScanCargoCheck
    \/ GenerateCargoJob
    \/ ScanPassengerCheck
    \/ GeneratePassengerJob
    \/ \E p \in {"main", "reload", "heartbeat"} : ScanEnd(p)
    \/ \E id \in RequestIDs : AcceptArrives(id)
    \/ AcceptLock
    \/ AcceptAppend
    \/ AcceptRemove
    \/ AcceptRecord
    \/ AcceptReturn
    \/ \E destKey \in RequestPlanets : HandleTravel(destKey)

\* two planets five apart: one cargo job wanted at planet_prime, one passenger
\* job at b
UniverseW ==
    [UniverseA EXCEPT
        !.Planets = <<
            [Key |-> Prime, Coordinates |-> <<0, 0>>, Production |-> <<"ore">>,
             MinCargo |-> 1, MaxCargo |-> 1, MinPassengers |-> 0, MaxPassengers |-> 1],
            [Key |-> "b", Coordinates |-> <<3, 4>>, Production |-> <<>>,
             MinCargo |-> 0, MaxCargo |-> 1, MinPassengers |-> 1, MaxPassengers |-> 1] >>,
        !.ShipModules = <<>>]

WaitInit == InitWorld({UniverseW}, FALSE) /\ InitHub

WaitSpec == WaitInit /\ [][WaitNext]_vars

\* A goroutine inside its critical section runs on (weak fairness of its
\* statements).  A goroutine blocked in Lock() gets the lock once the holders
\* before it have released it: sync.RWMutex queues writers and hands the lock
\* over to a waiter that has waited long (strong fairness of the acquisitions,
\* which other acquisitions disable for a while).  Requests, signals and ticks
\* arrive or not.
WaitFairness ==
    /\ \A p \in {"main", "reload"} : SF_vars(MarketTick(p))
    /\ \A p \in {"main", "reload", "heartbeat"} : SF_vars(ScanBegin(p))
    /\ SF_vars(AcceptLock)
    /\ WF_vars(ScanCargoCheck) /\ WF_vars(GenerateCargoJob)
    /\ WF_vars(ScanPassengerCheck) /\ WF_vars(GeneratePassengerJob)
    /\ \A p \in {"main", "reload", "heartbeat"} : WF_vars(ScanEnd(p))
    /\ WF_vars(AcceptAppend) /\ WF_vars(AcceptRemove)
    /\ WF_vars(AcceptRecord) /\ WF_vars(AcceptReturn)

WaitLiveSpec == WaitSpec /\ WaitFairness

-----------------------------------------------------------------------------
(* economy.go: ReplenishMarket on a world with one planet.  The destination
   loops of generateCargoJobs and generatePassengerJobs,
       dest := Planets[rand.Intn(len(Planets))]
       for dest.Key == origin.Key { dest = Planets[rand.Intn(len(Planets))] }
   leave with a planet of Destinations(origin).  Every draw of a one-planet
   world is the origin, Destinations(origin) is empty and the loop is never
   left: GenerateCargoJob can then only take its scarcity "continue", and
   GeneratePassengerJob has no step at all. *)

UniverseLone ==
    [UniverseW EXCEPT
        !.Planets = <<
            [Key |-> Prime, Coordinates |-> <<0, 0>>, Production |-> <<"ore">>,
             MinCargo |-> 1, MaxCargo |-> 2, MinPassengers |-> 1, MaxPassengers |-> 1] >>]

LoneInit == InitWorld({UniverseLone, UniverseW}, FALSE) /\ InitHub

LoneNext ==
    \/ \E p \in {"main", "reload"}, U \in env.files : LoadConfig(p, U)
    \/ \E p \in {"main", "reload"} : LoadConfigFail(p)
    \/ \E p \in {"main", "reload", "heartbeat"} : MarketTick(p)
    \/ \E p \in {"main", "reload", "heartbeat"} : ScanBegin(p)
    \/ ScanCargoCheck
    \/ GenerateCargoJob
    \/ ScanPassengerCheck
    \/ GeneratePassengerJob
    \/ \E p \in {"main", "reload", "heartbeat"} : ScanEnd(p)
    \/ \E id \in RequestIDs : HandleAcceptContract(id)

LoneSpec == LoneInit /\ [][LoneNext]_vars

\* the goroutine inside ReplenishMarket runs on; a draw of rand that leaves the
\* destination loop, where there is one, comes in the end
LoneFairness ==
    /\ WF_vars(ScanCargoCheck) /\ WF_vars(GenerateCargoJob)
    /\ WF_vars(ScanPassengerCheck) /\ WF_vars(GeneratePassengerJob)
    /\ \A p \in {"main", "reload", "heartbeat"} : WF_vars(ScanEnd(p))

LoneLiveSpec == LoneSpec /\ LoneFairness

-----------------------------------------------------------------------------
(* The boards under scarcity: the boot, the heartbeat and accepts in universe
   UniverseS, whose ship can take three full cargoes of ore from planet_prime
   and so push the source heat there past the scarcity threshold *)

ScarceInit == InitWorld({UniverseS}, FALSE) /\ InitHub

ScarceNext ==
    \/ \E U \in env.files : LoadConfig("main", U)
    \/ LoadConfigFail("main")
    \/ \E p \in {"main", "heartbeat"} : MarketTick(p)
    \/ \E p \in {"main", "heartbeat"} : ScanBegin(p)
    \/ ScanCargoCheck
    \/ GenerateCargoJob
    \/ ScanPassengerCheck
    \/ GeneratePassengerJob
    \/ \E p \in {"main", "heartbeat"} : ScanEnd(p)
    \/ \E id \in RequestIDs : HandleAcceptContract(id)

ScarceSpec == ScarceInit /\ [][ScarceNext]_vars

-----------------------------------------------------------------------------
(* Reloads: universe.yaml holds UniverseA or, edited, UniverseT whenever it is
   read; the boot, SIGHUP reloads, the heartbeat, accepts and travels *)

ReloadInit == InitWorld({UniverseA, UniverseT}, FALSE) /\ InitHub

ReloadNext ==
    \/ \E p \in {"main", "reload"}, U \in env.files : LoadConfig(p, U)
    \/ \E p \in {"main", "reload"} : LoadConfigFail(p)
    \/ \E p \in {"main", "reload", "heartbeat"} : MarketTick(p)
    \/ \E p \in {"main", "reload", "heartbeat"} : ScanBegin(p)
    \/ ScanCargoCheck
    \/ GenerateCargoJob
    \/ ScanPassengerCheck
    \/ GeneratePassengerJob
    \/ \E p \in {"main", "reload", "heartbeat"} : ScanEnd(p)
    \/ \E id \in RequestIDs : HandleAcceptContract(id)
    \/ \E destKey \in RequestPlanets : HandleTravel(destKey)

ReloadSpec == ReloadInit /\ [][ReloadNext]_vars

-----------------------------------------------------------------------------
(* The same with a planet whose two boards are both filled by one scan *)

ReportInit == InitWorld({UniverseR}, FALSE) /\ InitHub

ReportSpec == ReportInit /\ [][ScarceNext]_vars

-----------------------------------------------------------------------------
(* The program with the ids as fmt.Sprintf("CRG-%d-%d", rand.Intn(99999),
   time.Now().UnixNano()%1000) gives them: a new id can be one that a live
   contract already has *)

CollideInit == InitWorld({UniverseA}, TRUE) /\ InitHub

CollideSpec == CollideInit /\ [][Next]_vars

-----------------------------------------------------------------------------
(* The older program at the repository root (handlers.go, state.go, hub.go and
   its main.go): its LoadConfig, MarketTick, ReplenishMarket and
   handleAcceptContract do to the world what the ones of internal/ do; its
   SIGHUP goroutine differs *)

LegacyNext ==
    \/ \E p \in {"main", "reload"}, U \in env.files : LoadConfig(p, U)
    \/ LoadConfigFail("main")
    \/ LoadConfigFailIgnored
    \/ \E p \in {"main", "reload", "heartbeat"} : MarketTick(p)
    \/ \E p \in {"main", "reload", "heartbeat"} : ScanBegin(p)
    \/ ScanCargoCheck
    \/ GenerateCargoJob
    \/ ScanPassengerCheck
    \/ GeneratePassengerJob
    \/ \E p \in {"main", "reload", "heartbeat"} : ScanEnd(p)
    \/ \E id \in RequestIDs : HandleAcceptContract(id)

LegacySpec == Init /\ [][LegacyNext]_vars

-----------------------------------------------------------------------------
(* Flights: boot, then accepts, travels and refuels on the boards of the first
   fill, for the ships of UniverseBurn and UniverseLight *)

BurnInit == InitWorld({UniverseBurn, UniverseLight}, FALSE) /\ InitHub

BurnNext ==
    \/ \E U \in env.files : LoadConfig("main", U)
    \/ LoadConfigFail("main")
    \/ MarketTick("main")
    \/ ScanBegin("main")
    \/ ScanCargoCheck
    \/ GenerateCargoJob
    \/ ScanPassengerCheck
    \/ GeneratePassengerJob
    \/ ScanEnd("main")
    \/ \E id \in RequestIDs : HandleAcceptContract(id)
    \/ \E destKey \in RequestPlanets : HandleTravel(destKey)
    \/ HandleRefuel

BurnSpec == BurnInit /\ [][BurnNext]_vars

(* The same flights with quotes asked before them *)

QuoteNext ==
    \/ \E U \in env.files : LoadConfig("main", U)
    \/ LoadConfigFail("main")
    \/ MarketTick("main")
    \/ ScanBegin("main")
    \/ ScanCargoCheck
    \/ GenerateCargoJob
    \/ ScanPassengerCheck
    \/ GeneratePassengerJob
    \/ ScanEnd("main")
    \/ \E id \in RequestIDs : HandleAcceptContract(id)
    \/ \E destKey \in RequestPlanets : HandleTravel(destKey)
    \/ \E destKey \in RequestPlanets : HandleTravelQuote(destKey)
    \/ HandleRefuel

QuoteSpec == BurnInit /\ [][QuoteNext]_vars

(* The same flights in the older program *)

OldBurnInit == InitWorld({UniverseOld}, FALSE) /\ InitHub

OldBurnNext ==
    \/ \E U \in env.files : LoadConfig("main", U)
    \/ LoadConfigFail("main")
    \/ MarketTick("main")
    \/ ScanBegin("main")
    \/ ScanCargoCheck
    \/ GenerateCargoJob
    \/ ScanPassengerCheck
    \/ GeneratePassengerJob
    \/ ScanEnd("main")
    \/ \E id \in RequestIDs : HandleAcceptContract(id)
    \/ \E destKey \in RequestPlanets : handleTravel(destKey)
    \/ HandleRefuel

OldBurnSpec == OldBurnInit /\ [][OldBurnNext]_vars

-----------------------------------------------------------------------------
(* The tick alone: a served world of UniverseA whose boards are at their minimum
   (the scan finds nothing to do) and whose heat values are drawn on both sides
   of 1.0, as far from it as the heartbeats explored can recover; nothing is
   accepted or delivered *)

TickSpread == RecoveryRate * MaxEvents

HeatAt(a, b) ==
    [SourceHeat |-> (Prime :> ("ore" :> Neutral + a @@ PassengerItem :> Neutral - b))
                    @@ ("b" :> ("ore" :> Neutral)),
     DestHeat |-> (Prime :> ("ore" :> Neutral))
                  @@ ("b" :> ("ore" :> Neutral + b @@ PassengerItem :> Neutral - a))]

MinimalBoards ==
    (Prime :> <<[ID |-> <<"CRG", 1>>, Type |-> "cargo", ItemKey |-> "ore", Quantity |-> 5,
                 MassPerUnit |-> 40, OriginKey |-> Prime, DestinationKey |-> "b",
                 Payout |-> 10]>>)
    @@ ("b" :> <<[ID |-> <<"PAX", 1>>, Type |-> "passenger", ItemKey |-> PassengerItem,
                  Quantity |-> 1, MassPerUnit |-> 100, OriginKey |-> "b",
                  DestinationKey |-> Prime, Payout |-> 76]>>)

TickInit ==
    /\ env = [files |-> {UniverseA}, collide |-> FALSE]
    /\ CurrentUniverse = UniverseA
    /\ PlayerShip = ResetShip(ZeroShip, UniverseA)
    /\ AvailableContracts = MinimalBoards
    /\ \E a \in 0..TickSpread, b \in 0..TickSpread : Market = HeatAt(a, b)
    /\ DataLock = "free"
    /\ pc = [main |-> "serve", heartbeat |-> "idle", reload |-> "idle",
             handler |-> "idle", reader |-> "idle"]
    /\ scan = ScanIdle
    /\ request = NoRequest
    /\ events = 0
    /\ clash = FALSE
    /\ pulse = <<>>
    /\ last = [op |-> "init", res |-> "ok", arg |-> <<>>]
    /\ InitHub

TickNext ==
    \/ MarketTick("heartbeat")
    \/ ScanBegin("heartbeat")
    \/ ScanCargoCheck
    \/ ScanPassengerCheck
    \/ ScanEnd("heartbeat")

\* the ticker fires every 60 s and nothing else competes for the lock
TickSpec == TickInit /\ [][TickNext]_vars /\ WF_vars(TickNext)

-----------------------------------------------------------------------------
(* hub.go: the steps of the hub and of the pumps *)

\* ServeWs up to its send on register: the client is created with an empty send channel
ServeWs(c) ==
    /\ conn[c].at = "none"
    /\ conn' = [conn EXCEPT ![c].at = "register"]
    /\ UNCHANGED <<clients, gameVars, frames>>

\* Run, case client := <-h.register; ServeWs goes on and starts both pumps
RunRegister(c) ==
    /\ conn[c].at = "register"
    /\ clients' = clients \cup {c}
    /\ conn' = [conn EXCEPT ![c].at = "serving", ![c].reader = "read", ![c].writer = "range"]
    /\ UNCHANGED <<gameVars, frames>>

\* readPump: ReadMessage returns a frame
ReadPumpMessage(c) ==
    /\ conn[c].reader = "read"
    /\ conn' = [conn EXCEPT ![c].reader = "echo"]
    /\ UNCHANGED <<clients, gameVars, frames>>

\* readPump: ReadMessage returns an error, the loop breaks, the deferred function runs
ReadPumpError(c) ==
    /\ conn[c].reader = "read"
    /\ conn' = [conn EXCEPT ![c].reader = "unregister"]
    /\ UNCHANGED <<clients, gameVars, frames>>

\* an unregister that closes the queue without looking the client up
RunUnregisterUnchecked(c) ==
    /\ conn[c].reader = "unregister"
    /\ clients' = clients \ {c}
    /\ conn' = [conn EXCEPT ![c].reader = "done", ![c].closed = @ + 1]
    /\ UNCHANGED <<gameVars, frames>>

\* an unregister that deletes the client and leaves its queue open
RunUnregisterLeavesOpen(c) ==
    /\ conn[c].reader = "unregister"
    /\ clients' = clients \ {c}
    /\ conn' = [conn EXCEPT ![c].reader = "done"]
    /\ UNCHANGED <<gameVars, frames>>

\* Run, case client := <-h.unregister
RunUnregister(c) ==
    /\ conn[c].reader = "unregister"
    /\ IF c \in clients
       THEN /\ clients' = clients \ {c}
            /\ conn' = [conn EXCEPT ![c].reader = "done", ![c].closed = @ + 1]
       ELSE /\ clients' = clients
            /\ conn' = [conn EXCEPT ![c].reader = "done"]
    /\ UNCHANGED <<gameVars, frames>>

\* who is at a send on Broadcast, and with which message
Senders == {System} \cup {c \in Clients : conn[c].reader = "echo"}
MessageOf(from) == IF from = System THEN "market_pulse" ELSE "echo"

\* a send that always takes its first case
HasRoomAlways(c) == TRUE

\* select { case client.send <- message: ... default: ... } takes its first case
\* exactly when the channel has room
HasRoom(c) == Len(conn[c].send) < QueueCap

\* a broadcast whose sends have no default case: the hub waits for room
RunBroadcastBlocking(from) ==
    /\ from \in Senders
    /\ \A c \in clients : HasRoom(c)
    /\ conn' = [c \in Clients |->
                  LET r == IF c = from THEN [conn[c] EXCEPT !.reader = "read"] ELSE conn[c]
                  IN IF c \in clients THEN [r EXCEPT !.send = Append(@, MessageOf(from))] ELSE r]
    /\ UNCHANGED <<clients, gameVars, frames>>

\* a broadcast that closes a full queue and leaves its client in the set
RunBroadcastKeepsDropped(from) ==
    /\ from \in Senders
    /\ LET message == MessageOf(from) IN
       /\ conn' = [c \in Clients |->
                     LET r == IF c = from THEN [conn[c] EXCEPT !.reader = "read"] ELSE conn[c]
                     IN IF c \notin clients THEN r
                        ELSE IF HasRoom(c) THEN [r EXCEPT !.send = Append(@, message)]
                        ELSE [r EXCEPT !.closed = @ + 1]]
       /\ clients' = clients
       /\ UNCHANGED <<gameVars, frames>>

\* Run, case message := <-h.Broadcast, with its loop over h.clients
RunBroadcast(from) ==
    /\ from \in Senders
    /\ LET message == MessageOf(from) IN
       /\ conn' = [c \in Clients |->
                     LET r == IF c = from THEN [conn[c] EXCEPT !.reader = "read"] ELSE conn[c]
                     IN IF c \notin clients THEN r
                        ELSE IF HasRoom(c) THEN [r EXCEPT !.send = Append(@, message)]
                        ELSE [r EXCEPT !.closed = @ + 1]]
       /\ clients' = {c \in clients : HasRoom(c)}
       /\ UNCHANGED <<gameVars, frames>>

\* writePump: one message of send is received and written; when the write
\* fails the pump returns
WritePumpMessage(c, ok) ==
    /\ conn[c].writer = "range"
    /\ conn[c].send # <<>>
    /\ conn' = [conn EXCEPT ![c].send = Tail(@), ![c].writer = IF ok THEN "range" ELSE "done"]
    /\ UNCHANGED <<clients, gameVars, frames>>

\* writePump: send is closed and drained, the range ends
WritePumpExit(c) ==
    /\ conn[c].writer = "range"
    /\ conn[c].send = <<>>
    /\ conn[c].closed > 0
    /\ conn' = [conn EXCEPT ![c].writer = "done"]
    /\ UNCHANGED <<clients, gameVars, frames>>

HubNext ==
    \/ \E c \in Clients : ServeWs(c)
    \/ \E c \in Clients : RunRegister(c)
    \/ \E c \in Clients : ReadPumpMessage(c)
    \/ \E c \in Clients : ReadPumpError(c)
    \/ \E c \in Clients : RunUnregister(c)
    \/ \E from \in Clients \cup {System} : RunBroadcast(from)
    \/ \E c \in Clients, ok \in BOOLEAN : WritePumpMessage(c, ok)
    \/ \E c \in Clients : WritePumpExit(c)

\* the hub and its connections; the game state stays as constructed
HubSpec == Init /\ [][HubNext]_vars

\* The hub goroutine keeps running: its select takes every case that stays
\* ready (Go picks among the ready cases at random).  Nothing is assumed of the
\* pumps: a writePump can stay in its write for ever, a readPump in its read.
HubFairness ==
    /\ \A c \in Clients : WF_vars(RunRegister(c))
    /\ \A c \in Clients : WF_vars(RunUnregister(c))
    /\ \A from \in Clients : WF_vars(RunBroadcast(from))

HubLiveSpec == HubSpec /\ HubFairness

-----------------------------------------------------------------------------
(* hub.go: the life of a connection *)

\* conn.Close() has run: writePump has returned (its deferred function), or
\* readPump has (after its send on unregister)
TransportClosed(c) == conn[c].writer = "done" \/ conn[c].reader = "done"

\* readPump: ReadMessage returns a frame of the peer; the transport is open
ReadPumpOpen(c) ==
    /\ conn[c].reader = "read"
    /\ ~TransportClosed(c)
    /\ conn' = [conn EXCEPT ![c].reader = "echo"]
    /\ UNCHANGED <<clients, gameVars, frames>>

\* readPump: ReadMessage returns an error because writePump closed the transport
ReadPumpClosed(c) ==
    /\ conn[c].reader = "read"
    /\ TransportClosed(c)
    /\ conn' = [conn EXCEPT ![c].reader = "unregister"]
    /\ UNCHANGED <<clients, gameVars, frames>>

LifeNext ==
    \/ \E c \in Clients : ServeWs(c)
    \/ \E c \in Clients : RunRegister(c)
    \/ \E c \in Clients : ReadPumpOpen(c)
    \/ \E c \in Clients : ReadPumpError(c)
    \/ \E c \in Clients : ReadPumpClosed(c)
    \/ \E c \in Clients : RunUnregister(c)
    \/ \E from \in Clients \cup {System} : RunBroadcast(from)
    \/ \E c \in Clients, ok \in BOOLEAN : WritePumpMessage(c, ok)
    \/ \E c \in Clients : WritePumpExit(c)

LifeSpec == Init /\ [][LifeNext]_vars

\* The hub takes every case that stays ready.  A goroutine that can run does:
\* a range over a closed and empty channel ends, and ReadMessage on a closed
\* transport returns an error.  A write to the peer may never return, and the
\* peer may never send or close: nothing is assumed of those.
LifeFairness ==
    /\ HubFairness
    /\ \A c \in Clients : WF_vars(WritePumpExit(c))
    /\ \A c \in Clients : WF_vars(ReadPumpClosed(c))

LifeLiveSpec == LifeSpec /\ LifeFairness

-----------------------------------------------------------------------------
(* hub.go with the frames told apart *)

MaxFrames == 3      \* frames read from the connections in a run

\* readPump: ReadMessage returns a frame, told from every other by its reader
\* and its number
ReadPumpFrame(c) ==
    /\ conn[c].reader = "read"
    /\ frames.reads < MaxFrames
    /\ conn' = [conn EXCEPT ![c].reader = "echo"]
    /\ frames' = [frames EXCEPT !.held[c] = <<c, frames.reads + 1>>, !.reads = @ + 1]
    /\ UNCHANGED <<clients, gameVars>>

\* a broadcast that puts the message at the head of the queue of client 1
RunBroadcastJumpsQueue(from) ==
    /\ conn[from].reader = "echo"
    /\ LET message == frames.held[from] IN
       /\ conn' = [c \in Clients |->
                     LET r == IF c = from THEN [conn[c] EXCEPT !.reader = "read"] ELSE conn[c]
                     IN IF c \notin clients THEN r
                        ELSE IF HasRoom(c)
                        THEN [r EXCEPT !.send = IF c = 1 THEN <<message>> \o @
                                                ELSE Append(@, message)]
                        ELSE [r EXCEPT !.closed = @ + 1]]
       /\ clients' = {c \in clients : HasRoom(c)}
       /\ frames' = [frames EXCEPT !.order = Append(@, message), !.held[from] = <<>>]
       /\ UNCHANGED gameVars

\* a broadcast that leaves out the client the frame came from
RunBroadcastSkipsSender(from) ==
    /\ conn[from].reader = "echo"
    /\ LET message == frames.held[from] IN
       /\ conn' = [c \in Clients |->
                     LET r == IF c = from THEN [conn[c] EXCEPT !.reader = "read"] ELSE conn[c]
                     IN IF c \notin clients \/ c = from THEN r
                        ELSE IF HasRoom(c) THEN [r EXCEPT !.send = Append(@, message)]
                        ELSE [r EXCEPT !.closed = @ + 1]]
       /\ clients' = {c \in clients : c = from \/ HasRoom(c)}
       /\ frames' = [frames EXCEPT !.order = Append(@, message), !.held[from] = <<>>]
       /\ UNCHANGED gameVars

\* Run, case message := <-h.Broadcast, the sender being the readPump of from
RunBroadcastFrame(from) ==
    /\ conn[from].reader = "echo"
    /\ LET message == frames.held[from] IN
       /\ conn' = [c \in Clients |->
                     LET r == IF c = from THEN [conn[c] EXCEPT !.reader = "read"] ELSE conn[c]
                     IN IF c \notin clients THEN r
                        ELSE IF HasRoom(c) THEN [r EXCEPT !.send = Append(@, message)]
                        ELSE [r EXCEPT !.closed = @ + 1]]
       /\ clients' = {c \in clients : HasRoom(c)}
       /\ frames' = [frames EXCEPT !.order = Append(@, message), !.held[from] = <<>>]
       /\ UNCHANGED gameVars

\* writePump: one message of send is received and written to the connection;
\* when the write fails the pump returns
WritePumpFrame(c, ok) ==
    /\ conn[c].writer = "range"
    /\ conn[c].send # <<>>
    /\ conn' = [conn EXCEPT ![c].send = Tail(@), ![c].writer = IF ok THEN "range" ELSE "done"]
    /\ frames' = IF ok THEN [frames EXCEPT !.got[c] = Append(@, Head(conn[c].send))]
                 ELSE frames
    /\ UNCHANGED <<clients, gameVars>>

EchoNext ==
    \/ \E c \in Clients : ServeWs(c)
    \/ \E c \in Clients : RunRegister(c)
    \/ \E c \in Clients : ReadPumpFrame(c)
    \/ \E c \in Clients : ReadPumpError(c)
    \/ \E c \in Clients : RunUnregister(c)
    \/ \E from \in Clients : RunBroadcastFrame(from)
    \/ \E c \in Clients, ok \in BOOLEAN : WritePumpFrame(c, ok)
    \/ \E c \in Clients : WritePumpExit(c)

EchoSpec == Init /\ [][EchoNext]_vars

\* the hub goroutine keeps running, as in HubFairness
EchoFairness ==
    /\ \A c \in Clients : WF_vars(RunRegister(c))
    /\ \A c \in Clients : WF_vars(RunUnregister(c))
    /\ \A from \in Clients : WF_vars(RunBroadcastFrame(from))

EchoLiveSpec == EchoSpec /\ EchoFairness

-----------------------------------------------------------------------------
(* main.go: the heartbeat goroutine and the hub *)

\* json.Marshal of the api.Message the heartbeat builds
MarketPulse(updatedPlanets) ==
    [type |-> "market_pulse",
     payload |-> [updated_planets |-> updatedPlanets],
     sender |-> "system"]

\* json.Marshal of the map the heartbeat of the older main.go builds
MarketPulseOld(updatedPlanets) ==
    [type |-> "market_pulse", updated_planets |-> updatedPlanets]

\* ReplenishMarket returns to the heartbeat goroutine of main.go, which builds
\* the message when the list is not empty and goes to its send on Broadcast
HeartbeatReturn ==
    /\ Scanning /\ DataLock = "heartbeat" /\ scan.phase = "cargo" /\ ScanDone
    /\ DataLock' = "free"
    /\ IF Len(scan.updated) > 0
       THEN /\ pulse' = MarketPulse(scan.updated)
            /\ pc' = [pc EXCEPT !.heartbeat = "pulse"]
       ELSE /\ pulse' = pulse
            /\ pc' = [pc EXCEPT !.heartbeat = "idle"]
    /\ scan' = ScanIdle
    /\ last' = [op |-> "scan", res |-> "end", arg |-> <<>>]
    /\ UNCHANGED <<worldVars, request, env, events, clash, hubVars>>

\* the same in the heartbeat goroutine of the older main.go
HeartbeatReturnOld ==
    /\ Scanning /\ DataLock = "heartbeat" /\ scan.phase = "cargo" /\ ScanDone
    /\ DataLock' = "free"
    /\ IF Len(scan.updated) > 0
       THEN /\ pulse' = MarketPulseOld(scan.updated)
            /\ pc' = [pc EXCEPT !.heartbeat = "pulse"]
       ELSE /\ pulse' = pulse
            /\ pc' = [pc EXCEPT !.heartbeat = "idle"]
    /\ scan' = ScanIdle
    /\ last' = [op |-> "scan", res |-> "end", arg |-> <<>>]
    /\ UNCHANGED <<worldVars, request, env, events, clash, hubVars>>

\* Run, case message := <-h.Broadcast, the sender being the heartbeat goroutine
\* (the channel has no buffer: the send ends when the hub receives)
RunBroadcastPulse ==
    /\ pc.heartbeat = "pulse"
    /\ conn' = [c \in Clients |->
                  IF c \notin clients THEN conn[c]
                  ELSE IF HasRoom(c) THEN [conn[c] EXCEPT !.send = Append(@, pulse)]
                  ELSE [conn[c] EXCEPT !.closed = @ + 1]]
    /\ clients' = {c \in clients : HasRoom(c)}
    /\ pc' = [pc EXCEPT !.heartbeat = "idle"]
    /\ pulse' = <<>>
    /\ last' = [op |-> "pulse", res |-> "ok", arg |-> <<pulse>>]
    /\ UNCHANGED <<worldVars, DataLock, scan, request, env, events, clash, frames>>

\* boot, heartbeat cycles, accepts that empty the boards, and connections that
\* listen
PulseNext ==
    \/ \E U \in env.files : LoadConfig("main", U)
    \/ LoadConfigFail("main")
    \/ \E p \in {"main", "heartbeat"} : MarketTick(p)
    \/ \E p \in {"main", "heartbeat"} : ScanBegin(p)
    \/ ScanCargoCheck
    \/ GenerateCargoJob
    \/ ScanPassengerCheck
    \/ GeneratePassengerJob
    \/ ScanEnd("main")
    \/ HeartbeatReturn
    \/ RunBroadcastPulse
    \/ \E id \in RequestIDs : HandleAcceptContract(id)
    \/ \E c \in Clients : ServeWs(c)
    \/ \E c \in Clients : RunRegister(c)
    \/ \E c \in Clients, ok \in BOOLEAN : WritePumpMessage(c, ok)

PulseSpec == Init /\ [][PulseNext]_vars

\* the same in the older program
OldPulseNext ==
    \/ \E U \in env.files : LoadConfig("main", U)
    \/ LoadConfigFail("main")
    \/ \E p \in {"main", "heartbeat"} : MarketTick(p)
    \/ \E p \in {"main", "heartbeat"} : ScanBegin(p)
    \/ ScanCargoCheck
    \/ GenerateCargoJob
    \/ ScanPassengerCheck
    \/ GeneratePassengerJob
    \/ ScanEnd("main")
    \/ HeartbeatReturnOld
    \/ RunBroadcastPulse
    \/ \E id \in RequestIDs : HandleAcceptContract(id)
    \/ \E c \in Clients : ServeWs(c)
    \/ \E c \in Clients : RunRegister(c)
    \/ \E c \in Clients, ok \in BOOLEAN : WritePumpMessage(c, ok)

OldPulseSpec == Init /\ [][OldPulseNext]_vars

-----------------------------------------------------------------------------
(* Steps and states the properties below speak about *)

\* the step just taken is the operation op and it ended with res
Step(op, res) == last'.op = op /\ last'.res = res /\ vars' # vars

\* the operation that acted last is op and it ended with res
Was(op, res) == last.op = op /\ last.res = res

\* the places a contract can be: <<"ship", i>> or <<planet key, i>>
Places ==
    {<<"ship", i>> : i \in 1..Len(PlayerShip.ActiveContracts)}
    \cup UNION {{<<k, i>> : i \in 1..Len(AvailableContracts[k])} : k \in DOMAIN AvailableContracts}

ContractAt(pl) ==
    IF pl[1] = "ship" THEN PlayerShip.ActiveContracts[pl[2]] ELSE AvailableContracts[pl[1]][pl[2]]

\* keys other than "ship" name boards; no planet of the universes here is keyed "ship"
OneOwner == \A p1, p2 \in Places : ContractAt(p1).ID = ContractAt(p2).ID => p1 = p2

\* this step moved exactly the board entry idx of the current location to the ship
MovedToShip(idx) ==
    LET location == PlayerShip.LocationKey
        board == Board(location)
        after == AvailableContracts'[location]
    IN /\ PlayerShip'.ActiveContracts = Append(PlayerShip.ActiveContracts, board[idx])
       /\ Len(after) = Len(board) - 1
       /\ \A j \in 1..Len(after) : after[j] = IF j < idx THEN board[j] ELSE board[j + 1]
       /\ DOMAIN AvailableContracts' = DOMAIN AvailableContracts
       /\ \A k \in DOMAIN AvailableContracts \ {location} :
               AvailableContracts'[k] = AvailableContracts[k]

AcceptMovesOne ==
    Step("accept", "ok") => \E idx \in 1..Len(Board(PlayerShip.LocationKey)) : MovedToShip(idx)

-----------------------------------------------------------------------------
(* C1: with distinct generated ids, in every reachable state no contract is both
   on the ship and on a board, none is on two boards or twice on one board, and
   every successful accept removes exactly the matched entry of the current
   board and appends exactly that contract to the ship. *)
ContractHasOneOwner == []OneOwner /\ [][AcceptMovesOne]_vars

\* an accept has just moved one of two contracts of planet_prime to the ship,
\* while the other planet's board holds a contract too
ContractHasOneOwnerWitness ==
    /\ Was("accept", "ok")
    /\ Len(PlayerShip.ActiveContracts) = 1
    /\ PlayerShip.LocationKey = Prime
    /\ Len(Board(Prime)) = 1
    /\ Len(Board("b")) = 1

-----------------------------------------------------------------------------
(* Capacity *)

(* C2: in every reachable state the quantities of the ship's cargo contracts sum
   to at most Ship.CargoCapacity and those of its passenger contracts to at most
   Ship.PassengerSlots. *)
CapacityRespected ==
    /\ Loaded(PlayerShip.ActiveContracts, "cargo") <= PlayerShip.CargoCapacity
    /\ Loaded(PlayerShip.ActiveContracts, "passenger") <= PlayerShip.PassengerSlots

-----------------------------------------------------------------------------
(* Rejected requests *)

RejectedAcceptOrDrop ==
    \/ Step("accept", "notFound")
    \/ Step("accept", "cargoFull")
    \/ Step("accept", "passengersFull")
    \/ Step("drop", "notFound")

ContractsAndAccountsKept ==
    /\ PlayerShip'.ActiveContracts = PlayerShip.ActiveContracts
    /\ AvailableContracts' = AvailableContracts
    /\ Market'.SourceHeat = Market.SourceHeat
    /\ Market'.DestHeat = Market.DestHeat
    /\ PlayerShip'.Credits = PlayerShip.Credits
    /\ PlayerShip'.Fuel = PlayerShip.Fuel

(* C3: an accept rejected because the id is not on the current board or because
   the cargo or passenger quantity would exceed the capacity, and a drop rejected
   because the ship does not hold the id, leave the ship's active contracts,
   every board, SourceHeat, DestHeat, the credits and the fuel unchanged. *)
RejectedAcceptDropKeepsState == [][RejectedAcceptOrDrop => ContractsAndAccountsKept]_vars

\* an accept has just been refused for cargo space while the ship carries a
\* contract and the board still offers one
RejectedAcceptDropKeepsStateWitness ==
    /\ Was("accept", "cargoFull")
    /\ Len(PlayerShip.ActiveContracts) = 1
    /\ Len(Board(PlayerShip.LocationKey)) >= 1

RejectedTravelRefuelOrBuy ==
    \/ Step("travel", "notFound")
    \/ Step("travel", "fuel")
    \/ Step("refuel", "full")
    \/ Step("refuel", "credits")
    \/ Step("buy", "location")
    \/ Step("buy", "slots")
    \/ Step("buy", "notFound")
    \/ Step("buy", "credits")

(* C4: a travel rejected for an unknown destination or for too little fuel, a
   refuel rejected for a full tank or too few credits, and a module purchase
   rejected for the wrong location, no free slot, an unknown module or too few
   credits leave the universe, the ship, the boards and the heat maps unchanged. *)
RejectedTravelRefuelBuyKeepsWorld == [][RejectedTravelRefuelOrBuy => UNCHANGED worldVars]_vars

\* a refuel has just been refused for credits with the tank partly empty
RejectedTravelRefuelBuyKeepsWorldWitness ==
    /\ Was("refuel", "credits")
    /\ PlayerShip.Fuel < PlayerShip.MaxFuel
    /\ PlayerShip.Credits > 0

-----------------------------------------------------------------------------
(* Heat entries *)

HeatItems(h) == {"passenger"} \cup UNION {DOMAIN h[p] : p \in DOMAIN h}

\* the entry of a heat map as a sequence: empty when the map has no such entry
Entry(h, p, c) == IF p \in DOMAIN h /\ c \in DOMAIN h[p] THEN <<h[p][c]>> ELSE <<>>

\* the units of item c among the contracts cs
Units(cs, c) == SumSeq([k \in 1..Len(cs) |-> IF cs[k].ItemKey = c THEN cs[k].Quantity ELSE 0])

\* h2 is h1 with `by` hundredths added to the entry (p, c) and nothing else changed
OnlyEntryRaised(h1, h2, p, c, by) ==
    /\ DOMAIN h2 = DOMAIN h1
    /\ Entry(h2, p, c) = <<HeatGet(h1, p, c) + by>>
    /\ \A p2 \in DOMAIN h1 : \A c2 \in HeatItems(h1) \cup HeatItems(h2) :
          <<p2, c2>> # <<p, c>> => Entry(h2, p2, c2) = Entry(h1, p2, c2)

\* the contracts aboard that are bound for destKey
BoundFor(destKey) ==
    LET Arrives(c) == c.DestinationKey = destKey
    IN SelectSeq(PlayerShip.ActiveContracts, Arrives)

\* this step raised DestHeat at destKey by 2 hundredths per delivered unit of each
\* item and touched no other entry
DeliveryRecorded(destKey) ==
    LET removed == BoundFor(destKey)
    IN /\ DOMAIN Market'.DestHeat = DOMAIN Market.DestHeat
       /\ \A p \in DOMAIN Market.DestHeat :
            \A c \in HeatItems(Market.DestHeat) \cup HeatItems(Market'.DestHeat) :
               Entry(Market'.DestHeat, p, c) =
                  IF p = destKey /\ Units(removed, c) > 0
                  THEN <<HeatGet(Market.DestHeat, p, c) + 2 * Units(removed, c)>>
                  ELSE Entry(Market.DestHeat, p, c)

AcceptRaisesSource ==
    Step("accept", "ok") =>
        LET ship == PlayerShip'.ActiveContracts
            c == ship[Len(ship)]
        IN /\ c.ID = last'.arg[1]
           /\ OnlyEntryRaised(Market.SourceHeat, Market'.SourceHeat,
                              c.OriginKey, c.ItemKey, c.Quantity * 1)
           /\ Market'.DestHeat = Market.DestHeat

DeliveryRaisesDest ==
    Step("travel", "ok") =>
        /\ DeliveryRecorded(last'.arg[1])
        /\ Market'.SourceHeat = Market.SourceHeat

-----------------------------------------------------------------------------
(* Travel *)

TravelPost ==
    Step("travel", "ok") =>
        LET destKey == last'.arg[1]
            from == GetPlanet(PlayerShip.LocationKey)
            to == GetPlanet(destKey)
            distance == CalculateDistance(from.Coordinates, to.Coordinates)
            removed == BoundFor(destKey)
            Kept(c) == c.DestinationKey # destKey
        IN /\ PlayerShip'.Fuel = PlayerShip.Fuel - distance * CalculateCurrentBurn
           /\ PlayerShip'.LocationKey = destKey
           /\ PlayerShip'.ActiveContracts = SelectSeq(PlayerShip.ActiveContracts, Kept)
           /\ PlayerShip'.Credits = PlayerShip.Credits
                + SumSeq([k \in 1..Len(removed) |-> removed[k].Payout])
           /\ DeliveryRecorded(destKey)

(* C5: a successful travel debits the fuel by distance x the burn rate of the
   ship as loaded before departure, moves the ship to the destination, removes
   exactly the contracts bound for it, credits the sum of their payouts, and
   raises DestHeat by 0.02 per delivered unit; the other contracts stay aboard. *)
TravelDeliversAndDebits == [][TravelPost]_vars

\* the ship has just arrived at planet b with a delivered cargo: the loaded burn
\* rate was charged, the payout credited and the delivery recorded
TravelDeliversAndDebitsWitness ==
    /\ Was("travel", "ok")
    /\ PlayerShip.LocationKey = "b"
    /\ PlayerShip.ActiveContracts = <<>>
    /\ PlayerShip.Fuel < PlayerShip.MaxFuel - 500
    /\ PlayerShip.Credits > CurrentUniverse.BalanceConfig.StartingCredits
    /\ HeatGet(Market.DestHeat, "b", "ore") > Neutral

-----------------------------------------------------------------------------
(* Heat impacts, in hundredths *)

(* C9: accepting a contract of quantity q with origin o and item i raises
   SourceHeat[o][i] by q x 0.01 and changes no other heat entry; delivering a
   contract of quantity q with destination d and item i raises DestHeat[d][i] by
   q x 0.02 and changes no other heat entry. *)
HeatMovesByImpact == [][AcceptRaisesSource /\ DeliveryRaisesDest]_vars

\* a cargo accepted at planet_prime and delivered at planet b has left its heat
\* at both ends: at least 5 hundredths at the source, twice as much at the destination
HeatMovesByImpactWitness ==
    /\ Was("travel", "ok")
    /\ PlayerShip.LocationKey = "b"
    /\ HeatGet(Market.SourceHeat, Prime, "ore") >= Neutral + 5
    /\ HeatGet(Market.DestHeat, "b", "ore")
         = Neutral + 2 * (HeatGet(Market.SourceHeat, Prime, "ore") - Neutral)

-----------------------------------------------------------------------------
(* Critical sections *)

\* goroutine p is between its Lock()/RLock() and its Unlock()/RUnlock()
InSection(p) ==
    IF p = "handler" THEN pc.handler # "idle"
    ELSE IF p = "reader" THEN pc.reader # "idle"
    ELSE pc[p] = "scan" /\ scan.phase # "none" /\ DataLock \notin {"free", "handler", "reader"}

\* at most one goroutine is inside a section, and the lock is held exactly then
OneInSection ==
    /\ Cardinality({p \in DOMAIN pc : InSection(p)}) <= 1
    /\ \A p \in {"handler", "reader"} : InSection(p) <=> DataLock = p
    /\ (scan.phase # "none") <=> DataLock \in {"main", "heartbeat", "reload"}

\* the step belongs to the operation of goroutine p
StepOf(p) ==
    IF p = "handler" THEN last'.op = "accept" /\ pc.handler # "idle"
    ELSE IF p = "reader" THEN last'.op = "read"
    ELSE last'.op = "scan"

\* while a goroutine holds the lock, every step that changes the world or the
\* lock is a step of that goroutine, and a reader changes nothing
OnlyHolderActs ==
    (DataLock # "free" /\ <<worldVars, DataLock>>' # <<worldVars, DataLock>>) =>
        /\ StepOf(DataLock)
        /\ DataLock = "reader" => UNCHANGED worldVars

\* what the reader reads is the world between two operations: no accept is
\* half done, no scan is under way, every contract has one owner
ReadSeesWhole ==
    Step("read", "ok") =>
        /\ pc.handler = "idle"
        /\ scan.phase = "none"
        /\ request = NoRequest
        /\ OneOwner

\* when an accept returns, the ship and the board are what its own writes made
\* of the board it read at the start
AcceptIsOneSection ==
    Step("accept", "ok") =>
        /\ request.target = PlayerShip.ActiveContracts[Len(PlayerShip.ActiveContracts)]
        /\ AvailableContracts[request.location] = RemoveAt(request.board, request.foundIdx)

(* C6: every mutating operation runs from its first read to its last write as
   one exclusive critical section: at most one goroutine is inside a section,
   while the lock is held only its holder changes the world, and a reader never
   observes a half-applied accept or a scan under way. *)
MutationsAreExclusive ==
    []OneInSection /\ [][OnlyHolderActs /\ ReadSeesWhole /\ AcceptIsOneSection]_vars

\* the reader has read the board right after an accept returned: the contract is
\* on the ship, off the board, and its source heat is recorded
MutationsAreExclusiveWitness ==
    /\ Was("read", "ok")
    /\ pc.reader = "return"
    /\ Len(PlayerShip.ActiveContracts) = 1
    /\ Len(Board(Prime)) = 1
    /\ HeatGet(Market.SourceHeat, Prime, "ore") > Neutral

-----------------------------------------------------------------------------
(* The tick *)

Dist(h) == IF h >= Neutral THEN h - Neutral ELSE Neutral - h

HeatMaps == {"SourceHeat", "DestHeat"}

\* a tick moves no value away from 1.0 nor across it, and keeps the entries
TickTowardsNeutral ==
    Step("tick", "ok") =>
        \A m \in HeatMaps :
            /\ DOMAIN Market'[m] = DOMAIN Market[m]
            /\ \A p \in DOMAIN Market[m] :
                 /\ DOMAIN Market'[m][p] = DOMAIN Market[m][p]
                 /\ \A c \in DOMAIN Market[m][p] :
                       LET h == Market[m][p][c]
                           h2 == Market'[m][p][c]
                       IN /\ Dist(h2) <= Dist(h)
                          /\ h >= 100 => h2 >= 100
                          /\ h <= 100 => h2 <= 100

AllNeutral ==
    \A m \in HeatMaps : \A p \in DOMAIN Market[m] : \A c \in DOMAIN Market[m][p] :
        Market[m][p][c] = 100

(* C7: each tick leaves the distance of every heat value to 1.0 non-increasing
   and never moves a value across 1.0; with no acceptance or delivery in
   between, repeated ticks bring every value to exactly 1.0, where it stays. *)
TickConverges == [][TickTowardsNeutral]_vars /\ <>[]AllNeutral

\* a tick has just acted on values of both sides: one is still above 1.0 and
\* nearer than one recovery step, another still below and as near
TickConvergesWitness ==
    /\ Was("tick", "ok")
    /\ HeatGet(Market.SourceHeat, Prime, "ore") = 102
    /\ HeatGet(Market.SourceHeat, Prime, PassengerItem) = 97

-----------------------------------------------------------------------------
(* Replenish *)

\* the count of a type on a board when the scan took the lock
CountBefore(key, type) == IF key \in DOMAIN scan.before THEN scan.before[key][type] ELSE 0

\* the count when the scan returns; a planet without a board has none
CountNow(key, type) ==
    IF key \in DOMAIN AvailableContracts' THEN CountType(AvailableContracts'[key], type) ELSE 0

TargetsOf(planet, type) == IF type = "cargo" THEN CargoTargets(planet) ELSE PaxTargets(planet)

\* the count is what it was, having been at the minimum or above, or is in range
UnchangedOrInRange(planet, type) ==
    LET t == TargetsOf(planet, type)
        before == CountBefore(planet.Key, type)
        now == CountNow(planet.Key, type)
    IN \/ now = before /\ before >= t.min
       \/ t.min <= now /\ now <= t.max

\* no commodity is scarce at the planet: no cargo job can be skipped there
NothingScarce(planet) ==
    \A c \in CommodityKeys(CurrentUniverse) :
        HeatGet(Market.SourceHeat, planet.Key, c) <= 150

\* the cargo count did not fall and did not pass the maximum
GrownWithinMax(planet) ==
    /\ CountBefore(planet.Key, "cargo") <= CountNow(planet.Key, "cargo")
    /\ CountNow(planet.Key, "cargo") <= CargoTargets(planet).max

ReplenishPost ==
    Step("scan", "end") =>
        \A planet \in SeqToSet(CurrentUniverse.Planets) :
            /\ UnchangedOrInRange(planet, "passenger")
            /\ UnchangedOrInRange(planet, "cargo") \/ GrownWithinMax(planet)
            /\ NothingScarce(planet) => UnchangedOrInRange(planet, "cargo")

(* C8, as the code has it: after every replenish the passenger count of every
   board is unchanged (it was at the minimum or above) or within [minimum,
   maximum]; the cargo count is unchanged or within [minimum, maximum] wherever
   no commodity's source heat exceeds 1.5, and otherwise may stay below the
   minimum, between its previous value and the maximum. *)
ReplenishFillsUnlessScarce == [][ReplenishPost]_vars

\* a replenish has just ended with planet_prime short of its minimum of cargo
\* contracts, its ore being scarce
ReplenishFillsUnlessScarceWitness ==
    /\ Was("scan", "end")
    /\ Serving
    /\ CountType(Board(Prime), "cargo") < CargoTargets(GetPlanet(Prime)).min
    /\ HeatGet(Market.SourceHeat, Prime, "ore") > 150

(* C8, as stated: after every replenish, for every location and each contract
   type, the count on the board is the same as before (it was already at the
   minimum or above) or lies within [minimum, maximum]. *)
ReplenishFillsToRange ==
    [][Step("scan", "end") =>
          \A planet \in SeqToSet(CurrentUniverse.Planets) : \A type \in {"cargo", "passenger"} :
              UnchangedOrInRange(planet, type)]_vars

-----------------------------------------------------------------------------
(* Broadcast *)

\* what one broadcast of message does to the clients registered before it
BroadcastPost(message) ==
    /\ clients' \subseteq clients
    /\ \A c \in clients :
          IF Len(conn[c].send) < QueueCap
          THEN /\ conn'[c].send = Append(conn[c].send, message)
               /\ conn'[c].closed = conn[c].closed
               /\ c \in clients'
          ELSE /\ conn'[c].send = conn[c].send
               /\ conn'[c].closed = conn[c].closed + 1
               /\ c \notin clients'
    /\ \A c \in Clients \ clients :
          /\ conn'[c].send = conn[c].send
          /\ conn'[c].closed = conn[c].closed

(* C10: one broadcast appends the message to the queue of every registered
   client whose queue is not full, and removes every registered client whose
   queue is full from the set and closes its queue in that same step; the
   clients that received the message stay registered. *)
BroadcastDeliversOrDrops ==
    [][\A from \in Clients \cup {System} : RunBroadcast(from) => BroadcastPost(MessageOf(from))]_vars

\* a client with a full queue has been dropped and closed by a broadcast (its
\* readPump has not gone through unregister), while another client, still
\* registered, has the message in its queue
BroadcastDeliversOrDropsWitness ==
    \E c1, c2 \in Clients :
        /\ c1 \notin clients
        /\ conn[c1].closed = 1
        /\ conn[c1].reader \in {"read", "echo"}
        /\ Len(conn[c1].send) = QueueCap
        /\ c2 \in clients
        /\ conn[c2].send # <<>>
        /\ Len(conn[c2].send) < QueueCap

-----------------------------------------------------------------------------
(* The hub's progress *)

\* every event a goroutine has submitted is received and processed by the hub
RegisterProcessed == \A c \in Clients : (conn[c].at = "register") ~> (conn[c].at = "serving")
UnregisterProcessed ==
    \A c \in Clients : (conn[c].reader = "unregister") ~> (conn[c].reader = "done")
BroadcastProcessed == \A c \in Clients : (conn[c].reader = "echo") ~> (conn[c].reader = "read")

(* C11: the hub never waits on a client: whatever the queues and the write
   pumps do, a write pump suspended for ever included, every register,
   unregister and broadcast submitted to the hub is eventually received and
   processed. *)
HubNeverWaits == RegisterProcessed /\ UnregisterProcessed /\ BroadcastProcessed

\* one client's queue is full and its write pump has taken nothing of it, while
\* the hub has since processed the echo and the unregister of another client
HubNeverWaitsWitness ==
    \E c1, c2 \in Clients :
        /\ c1 \in clients
        /\ Len(conn[c1].send) = QueueCap
        /\ conn[c1].writer = "range"
        /\ conn[c1].send[QueueCap] = "echo"
        /\ conn[c2].reader = "done"
        /\ conn[c2].closed = 1

-----------------------------------------------------------------------------
(* Unregister *)

\* the queues and close counts of the clients in cs are what they were
QueuesKept(cs) ==
    \A c \in cs : conn'[c].send = conn[c].send /\ conn'[c].closed = conn[c].closed

UnregisterPost(c) ==
    IF c \in clients
    THEN /\ clients' = clients \ {c}
         /\ conn[c].closed = 0
         /\ conn'[c].closed = 1
         /\ conn'[c].send = conn[c].send
         /\ QueuesKept(Clients \ {c})
    ELSE /\ clients' = clients
         /\ QueuesKept(Clients)

\* close(client.send) runs at most once per client (a second close would panic)
ClosedOnce == \A c \in Clients : conn[c].closed <= 1

(* C12: an unregister of a client that is in the hub's set removes it from the
   set and closes its queue; an unregister of a client that is not in the set
   (already dropped as a slow consumer) changes neither the set nor any queue. *)
UnregisterRemovesOnce ==
    []ClosedOnce /\ [][\A c \in Clients : RunUnregister(c) => UnregisterPost(c)]_vars

\* the unregister of one client has been processed, its queue is closed once
\* and still holds what the write pump had not taken, while a client that was
\* dropped by a broadcast waits at its own unregister
UnregisterRemovesOnceWitness ==
    \E c1, c2 \in Clients :
        /\ conn[c1].reader = "done"
        /\ conn[c1].closed = 1
        /\ c1 \notin clients
        /\ conn[c1].send # <<>>
        /\ conn[c2].reader = "unregister"
        /\ c2 \notin clients
        /\ conn[c2].closed = 1

-----------------------------------------------------------------------------
(* The market after a load *)

\* the heat map has exactly the (planet, commodity) pairs of the loaded universe,
\* every one at 1.0
FreshHeat(h) ==
    /\ DOMAIN h = PlanetKeys(CurrentUniverse)
    /\ \A p \in DOMAIN h :
          /\ DOMAIN h[p] = CommodityKeys(CurrentUniverse)
          /\ \A c \in DOMAIN h[p] : h[p][c] = 100

(* C13: after every successful load or reload the heat maps hold exactly the
   (location, commodity) pairs of the newly loaded universe, nothing being left
   over from before, and every source and destination heat is 1.0. *)
MarketFreshAfterLoad ==
    Was("load", "ok") => FreshHeat(Market.SourceHeat) /\ FreshHeat(Market.DestHeat)

-----------------------------------------------------------------------------
(* The boards after a load *)

(* C14: a successful reload replaces the boards together with the universe and
   the market in one critical section: when LoadConfig has returned, no contract
   generated before it is offered on any board, that is, every board is empty
   until the replenish that follows. *)
BoardsFreshAfterLoad ==
    Was("load", "ok") => \A k \in DOMAIN AvailableContracts : AvailableContracts[k] = <<>>

-----------------------------------------------------------------------------
(* The ship across loads *)

\* the ship is the template of the universe just loaded, fuelled and funded
ShipIsNew ==
    LET template == CurrentUniverse'.PlayerShipConfig
        ship == PlayerShip'
    IN /\ ship.Fuel = template.MaxFuel
       /\ ship.MaxFuel = template.MaxFuel
       /\ ship.Credits = CurrentUniverse'.BalanceConfig.StartingCredits
       /\ ship.ActiveContracts = <<>>
       /\ ship.InstalledModules = <<>>
       /\ ship.LocationKey # ""
       /\ ship.CargoCapacity = template.CargoCapacity
       /\ ship.PassengerSlots = template.PassengerSlots
       /\ ship.MaxModuleSlots = template.MaxModuleSlots
       /\ ship.BaseMass = template.BaseMass
       /\ ship.BaseBurnRate = template.BaseBurnRate
       /\ ship.BurnDamping = template.BurnDamping

LoadResetsEmptyOnly ==
    Step("load", "ok") =>
        IF PlayerShip.LocationKey = "" THEN ShipIsNew ELSE PlayerShip' = PlayerShip

\* a load by the SIGHUP goroutine finds the ship located and leaves it alone
ReloadKeepsShip ==
    (Step("load", "ok") /\ pc'.reload # pc.reload) =>
        PlayerShip.LocationKey # "" /\ PlayerShip' = PlayerShip

\* once main has loaded, the ship has a location
ShipLocated == pc.main \notin {"load", "exit"} => PlayerShip.LocationKey # ""

(* C15: a load resets the ship to the template (full tank, starting credits,
   no contracts, no modules, a location) exactly when its location is empty;
   a reload finds the ship located and leaves every field of it unchanged, so
   the ship is reset once, by the first load. *)
ShipResetOnce == []ShipLocated /\ [][LoadResetsEmptyOnly /\ ReloadKeepsShip]_vars

\* a reload has just read the edited file (template hold 30, 20 starting
\* credits) while the ship, created from the first file, carries a contract
ShipResetOnceWitness ==
    /\ Was("load", "ok")
    /\ pc.reload = "tick"
    /\ CurrentUniverse = UniverseT
    /\ PlayerShip.CargoCapacity = 25
    /\ Len(PlayerShip.ActiveContracts) = 1

-----------------------------------------------------------------------------
(* A reload that fails *)

(* C16: a reload whose universe.yaml is unreadable or malformed leaves the
   universe, the market, the boards and the ship as they were and releases the
   lock, and the SIGHUP goroutine goes back to waiting: no replenish is run as
   part of the failed reload. *)
FailedReloadKeepsAll ==
    [][Step("load", "error") =>
          /\ UNCHANGED worldVars
          /\ DataLock' = "free"
          /\ pc'.reload = "idle"]_vars

\* a SIGHUP reload has just failed on a served world whose board at
\* planet_prime is short of a contract the ship has taken
FailedReloadKeepsAllWitness ==
    /\ Was("load", "error")
    /\ Serving
    /\ Len(PlayerShip.ActiveContracts) = 1
    /\ Board(Prime) = <<>>

-----------------------------------------------------------------------------
(* Recording against a key the market has no entry for *)

\* the contract the accept of this step has put aboard
Accepted == PlayerShip'.ActiveContracts[Len(PlayerShip'.ActiveContracts)]

(* C17: RecordAcceptance and RecordDelivery called with a (location, item) key
   that has no entry in the market (an unknown location, or an item that is
   not a commodity, such as "passenger") are no-ops: no heat value changes and
   no entry is created. *)
UnknownKeyRecordsNothing ==
    [][/\ (Step("accept", "ok") /\
             Entry(Market.SourceHeat, Accepted.OriginKey, Accepted.ItemKey) = <<>>)
          => Market' = Market
       /\ Step("travel", "ok") =>
             \A k \in 1..Len(BoundFor(last'.arg[1])) :
                LET c == BoundFor(last'.arg[1])[k]
                IN Entry(Market.DestHeat, last'.arg[1], c.ItemKey) = <<>>
                   => Market' = Market]_vars

-----------------------------------------------------------------------------
(* Contract ids *)

(* C18: contract ids are unique within a running process: in every reachable
   state no two contracts among all boards and the ship's active contracts
   have the same id, so that an id names exactly one contract. *)
ContractIDsUnique ==
    \A p1, p2 \in Places : p1 # p2 => ContractAt(p1).ID # ContractAt(p2).ID

-----------------------------------------------------------------------------
(* Modules *)

SlotsRespected == Len(PlayerShip.InstalledModules) <= PlayerShip.MaxModuleSlots

\* what a stat of the ship gains from the module
Delta(mod, stat) == IF mod.StatModifier = stat THEN mod.StatValue ELSE 0

\* a successful purchase appends the module, takes its cost and adds its stat
\* value to the one capacity it names; the rest of the ship and the world stay
BuyPost ==
    Step("buy", "ok") =>
        LET mod == GetModule(last'.arg[1])
        IN /\ mod # Nil
           /\ mod.StatModifier \in {"cargo_capacity", "passenger_slots"}
           /\ PlayerShip'.InstalledModules = Append(PlayerShip.InstalledModules, mod)
           /\ PlayerShip'.Credits = PlayerShip.Credits - mod.Cost
           /\ PlayerShip'.CargoCapacity =
                 PlayerShip.CargoCapacity + Delta(mod, "cargo_capacity")
           /\ PlayerShip'.PassengerSlots =
                 PlayerShip.PassengerSlots + Delta(mod, "passenger_slots")
           /\ \A f \in DOMAIN PlayerShip \ {"InstalledModules", "Credits",
                                            "CargoCapacity", "PassengerSlots"} :
                 PlayerShip'[f] = PlayerShip[f]
           /\ UNCHANGED <<CurrentUniverse, AvailableContracts, Market>>

(* C19: in every reachable state the number of installed modules is at most
   the ship's MaxModuleSlots; a successful buy-module appends exactly one
   module, debits exactly its cost and adds its stat value to exactly the one
   capacity it targets (cargo_capacity or passenger_slots). *)
ModuleSlotsRespected == []SlotsRespected /\ [][BuyPost]_vars

\* the cabin has just been bought into the last free slot: one more passenger
\* slot, the cargo capacity of the template, no credits left
ModuleSlotsRespectedWitness ==
    /\ Was("buy", "ok")
    /\ last.arg[1] = "mod_cabin"
    /\ Len(PlayerShip.InstalledModules) = PlayerShip.MaxModuleSlots
    /\ PlayerShip.PassengerSlots = ShipTemplate.PassengerSlots + 1
    /\ PlayerShip.CargoCapacity = ShipTemplate.CargoCapacity

-----------------------------------------------------------------------------
(* The burn rate *)

\* the mass aboard of one type of contract
MassAboard(type) ==
    LET cs == PlayerShip.ActiveContracts
    IN SumSeq([k \in 1..Len(cs) |->
          IF (cs[k].Type = "cargo") # (type = "cargo") THEN 0
          ELSE IF type = "cargo" THEN cs[k].MassPerUnit * cs[k].Quantity
          ELSE CurrentUniverse.PassengerConfig.MassPerPassenger * cs[k].Quantity])

\* max(100, baseBurnRate + (totalMass - referenceMass) / burnDamping), the
\* division being that of Go's integers
SpecifiedBurn ==
    LET fuelMassPerUnit == CurrentUniverse.BalanceConfig.FuelMassPerUnit
        referenceMass == PlayerShip.BaseMass + Quot(PlayerShip.MaxFuel, 2) * fuelMassPerUnit
        totalMass == PlayerShip.BaseMass + MassAboard("cargo") + MassAboard("passenger")
                     + PlayerShip.Fuel * fuelMassPerUnit
    IN Max(100, PlayerShip.BaseBurnRate + Quot(totalMass - referenceMass, PlayerShip.BurnDamping))

\* the distance from the ship to the planet destKey
LegTo(destKey) ==
    CalculateDistance(GetPlanet(PlayerShip.LocationKey).Coordinates,
                      GetPlanet(destKey).Coordinates)

\* the ship of the scenario, empty, with 600 units of fuel
ScenarioShip ==
    /\ PlayerShip.BaseBurnRate = 100
    /\ PlayerShip.BurnDamping = 1000
    /\ PlayerShip.BaseMass = 1000
    /\ PlayerShip.MaxFuel = 1000
    /\ CurrentUniverse.BalanceConfig.FuelMassPerUnit = 1
    /\ PlayerShip.ActiveContracts = <<>>
    /\ PlayerShip.Fuel = 600

\* a travel that is served costs distance x the specified burn rate, which is
\* fuel whenever the distance is not zero; one that is refused for fuel had a
\* destination beyond that; the ship of the scenario reaches a planet five
\* light years away with 100 units left
BurnPost ==
    /\ Step("travel", "ok") =>
          /\ PlayerShip'.Fuel = PlayerShip.Fuel - LegTo(last'.arg[1]) * SpecifiedBurn
          /\ LegTo(last'.arg[1]) > 0 => PlayerShip'.Fuel < PlayerShip.Fuel
          /\ (ScenarioShip /\ LegTo(last'.arg[1]) = 5) => PlayerShip'.Fuel = 100
    /\ Step("travel", "fuel") =>
          \E destKey \in PlanetKeys(CurrentUniverse) :
             PlayerShip.Fuel < LegTo(destKey) * SpecifiedBurn

(* C20: the burn rate is max(100, baseBurnRate + (totalMass - referenceMass) /
   burnDamping), with referenceMass = baseMass + (maxFuel / 2) x fuelMassPerUnit
   and totalMass = baseMass + cargo mass + passenger mass + fuel x
   fuelMassPerUnit; it is at least 100, so that every travel over a distance
   that is not zero costs fuel; the ship with baseBurnRate 100, burnDamping
   1000, baseMass 1000, maxFuel 1000 and fuelMassPerUnit 1 travels five light
   years on 600 units of fuel and arrives with 100. *)
BurnRateAsSpecified == [][BurnPost]_vars

\* the empty ship of the scenario has just flown the five light years from c
\* to b on 600 units of fuel
BurnRateAsSpecifiedWitness ==
    /\ Was("travel", "ok")
    /\ last.arg[1] = "b"
    /\ PlayerShip.Fuel = 100
    /\ PlayerShip.BurnDamping = 1000
    /\ PlayerShip.ActiveContracts = <<>>

-----------------------------------------------------------------------------
(* What ReplenishMarket returns *)

\* the list the scan of this step returns
Returned == scan.updated

NoDuplicates(list) == \A i, j \in 1..Len(list) : list[i] = list[j] => i = j

\* the board of the planet holds more contracts than when the scan began
Received(key) ==
    CountNow(key, "cargo") + CountNow(key, "passenger")
        > CountBefore(key, "cargo") + CountBefore(key, "passenger")

\* the cargo board was short and some commodity is scarce at the planet: every
\* attempt of generateCargoJobs there may have been skipped
CargoMaySkip(planet) ==
    /\ CountBefore(planet.Key, "cargo") < CargoTargets(planet).min
    /\ ~NothingScarce(planet)

ReportPost ==
    Step("scan", "end") =>
        /\ NoDuplicates(Returned)
        /\ SeqToSet(Returned) \subseteq PlanetKeys(CurrentUniverse)
        /\ \A planet \in SeqToSet(CurrentUniverse.Planets) :
              /\ Received(planet.Key) => planet.Key \in SeqToSet(Returned)
              /\ planet.Key \in SeqToSet(Returned)
                    => Received(planet.Key) \/ CargoMaySkip(planet)

(* C21, as the code has it: ReplenishMarket returns a list without duplicates
   of keys of planets; it lists every planet whose board received a contract
   during the call, and a planet it lists received one unless its cargo board
   was short and a commodity is scarce there (source heat above 1.5), in which
   case every attempt may have been skipped. *)
ReplenishReportsAsked == [][ReportPost]_vars

\* a scan is about to return a list that names planet_prime, whose board holds
\* what it held when the scan began
ReplenishReportsAskedWitness ==
    /\ Serving /\ Scanning /\ ScanDone
    /\ Prime \in SeqToSet(scan.updated)
    /\ CountType(Board(Prime), "cargo") = CountBefore(Prime, "cargo")
    /\ CountType(Board(Prime), "passenger") = CountBefore(Prime, "passenger")

(* C21, as stated: ReplenishMarket returns a list without duplicates that
   holds the key of a planet if and only if the board of that planet received
   at least one new contract during the call. *)
ReplenishReportsNew ==
    [][Step("scan", "end") =>
          /\ NoDuplicates(Returned)
          /\ \A planet \in SeqToSet(CurrentUniverse.Planets) :
                planet.Key \in SeqToSet(Returned) <=> Received(planet.Key)]_vars

-----------------------------------------------------------------------------
(* The market pulse *)

\* m is a market_pulse of sender "system" whose payload is the list
IsPulseOf(m, list) ==
    /\ DOMAIN m = {"type", "payload", "sender"}
    /\ m.type = "market_pulse"
    /\ m.sender = "system"
    /\ m.payload = [updated_planets |-> list]

\* the replenish of a heartbeat cycle returns in this step
CycleEnds == DataLock = "heartbeat" /\ DataLock' = "free"

\* the hub takes the message of the heartbeat in this step
PulseTaken == pc.heartbeat = "pulse" /\ pc'.heartbeat # "pulse"

PulsePost ==
    /\ CycleEnds =>
          /\ pulse = <<>>
          /\ IF scan.updated # <<>>
             THEN IsPulseOf(pulse', scan.updated) /\ pc'.heartbeat = "pulse"
             ELSE pulse' = <<>> /\ pc'.heartbeat = "idle"
    /\ PulseTaken =>
          /\ pulse # <<>> /\ pulse' = <<>> /\ pc'.heartbeat = "idle"
          /\ \A c \in clients :
                \/ conn'[c].send = Append(conn[c].send, pulse)
                \/ ~HasRoom(c) /\ c \notin clients'
    /\ pulse' # pulse => CycleEnds \/ PulseTaken
    /\ pc.heartbeat = "pulse" <=> pulse # <<>>

(* C22: the heartbeat submits a market_pulse (sender "system", payload the
   list of updated planets) to the hub after a replenish cycle if and only if
   the list that cycle returned is not empty, one pulse for each such cycle;
   a cycle that changed no planet submits nothing. *)
PulseIffUpdated == [][PulsePost]_vars

\* the hub has just taken the pulse of a cycle and put it in the queue of a
\* registered client
PulseIffUpdatedWitness ==
    /\ Was("pulse", "ok")
    /\ \E c \in clients : conn[c].send # <<>> /\ IsPulseOf(conn[c].send[Len(conn[c].send)], <<Prime>>)

-----------------------------------------------------------------------------
(* Echo *)

\* the frames a run can read
Frames == Clients \X (1..MaxFrames)

\* the hub takes the frame of the readPump of from in this step
EchoTaken(from) == conn[from].reader = "echo" /\ conn'[from].reader # "echo"

\* the frame is offered to the client: put in its queue, or the client is
\* dropped for its full queue
Offered(c, message) ==
    IF HasRoom(c)
    THEN conn'[c].send = Append(conn[c].send, message) /\ c \in clients'
    ELSE conn'[c].send = conn[c].send /\ c \notin clients'

EchoPost ==
    \A from \in Clients :
        /\ conn[from].reader = "echo" => frames.held[from] \in Frames
        /\ EchoTaken(from) =>
              /\ conn'[from].reader = "read"
              /\ frames'.order = Append(frames.order, frames.held[from])
              /\ \A c \in clients : Offered(c, frames.held[from])

\* a frame a readPump holds is eventually among the broadcasts processed
EchoProcessed ==
    \A f \in Frames : (frames.held[f[1]] = f) ~> (f \in SeqToSet(frames.order))

(* C23: every frame read from a connected client is republished as a
   broadcast, and when the hub processes it the frame is offered to every
   client in the set, the client that sent it included. *)
EchoToAll == [][EchoPost]_vars /\ EchoProcessed

\* a frame read from client 1 has been written back to client 1 and to the
\* other client
EchoToAllWitness ==
    \E f \in Frames :
        /\ f[1] = 1
        /\ f \in SeqToSet(frames.got[1])
        /\ f \in SeqToSet(frames.got[2])

-----------------------------------------------------------------------------
(* The order of the broadcasts *)

\* the place of a frame in the hub's order, 0 when the hub has not processed it
PlaceOf(f) ==
    IF \E i \in 1..Len(frames.order) : frames.order[i] = f
    THEN CHOOSE i \in 1..Len(frames.order) : frames.order[i] = f
    ELSE 0

\* what a client has received and what waits in its queue, in that order
Seen(c) == frames.got[c] \o conn[c].send

\* every client has the frames in the order in which the hub processed them
InHubOrder ==
    \A c \in Clients : \A i, j \in 1..Len(Seen(c)) :
        /\ PlaceOf(Seen(c)[i]) > 0
        /\ i < j => PlaceOf(Seen(c)[i]) < PlaceOf(Seen(c)[j])

\* two clients that both received two frames received them in the same order
SameOrder ==
    \A c, d \in Clients : \A m1, m2 \in Frames :
        LET At(x, m) == CHOOSE i \in 1..Len(frames.got[x]) : frames.got[x][i] = m
            Both(x) == m1 \in SeqToSet(frames.got[x]) /\ m2 \in SeqToSet(frames.got[x])
        IN (Both(c) /\ Both(d)) => (At(c, m1) < At(c, m2) <=> At(d, m1) < At(d, m2))

\* the events the hub processes in this step
Processed ==
    {<<"register", c>> : c \in {x \in Clients : conn[x].at = "register" /\ conn'[x].at # "register"}}
    \cup {<<"unregister", c>> :
            c \in {x \in Clients : conn[x].reader = "unregister" /\ conn'[x].reader # "unregister"}}
    \cup {<<"broadcast", c>> : c \in {x \in Clients : EchoTaken(x)}}

\* the hub processes one event at a time, and a broadcast adds one frame to
\* the order; nothing else changes the set of clients or the order
OneAtATime ==
    /\ Cardinality(Processed) <= 1
    /\ (clients' # clients \/ frames'.order # frames.order) => Cardinality(Processed) = 1
    /\ Len(frames'.order) <= Len(frames.order) + 1

(* C24: the hub processes register, unregister and broadcast events one at a
   time in a single order, and every client sees the broadcasts in that order:
   two clients that both receive m1 and m2 receive them in the same relative
   order, the one in which the hub processed the two broadcasts. *)
BroadcastsInOneOrder == [](InHubOrder /\ SameOrder) /\ [][OneAtATime]_vars

\* both clients have received the same two frames
BroadcastsInOneOrderWitness ==
    \E m1, m2 \in Frames :
        /\ m1 # m2
        /\ \A c \in Clients : m1 \in SeqToSet(frames.got[c]) /\ m2 \in SeqToSet(frames.got[c])

-----------------------------------------------------------------------------
(* The life of a connection *)

\* every write of c's writePump to the transport returns
WritesReturn(c) == WF_vars(\E ok \in BOOLEAN : WritePumpMessage(c, ok))

QueueClosed(c) == conn[c].closed > 0
BothPumpsDone(c) == conn[c].writer = "done" /\ conn[c].reader = "done"

\* a failed read leads to the client out of the set with its queue closed
ReadFailureCleansUp ==
    \A c \in Clients : (conn[c].reader = "unregister") ~> (c \notin clients /\ QueueClosed(c))

\* a closed queue whose writes return leads to both pumps having returned
ClosedQueueEndsPumps ==
    \A c \in Clients : WritesReturn(c) => (QueueClosed(c) ~> BothPumpsDone(c))

\* once writePump has returned, readPump returns too
WriterEndEndsReader ==
    \A c \in Clients : (conn[c].writer = "done") ~> (conn[c].reader = "done")

(* C25: once a client's read fails or closes, the client is eventually removed
   from the hub's set and its queue closed; once a client's queue is closed (by
   unregister or because it was full) and its pending write to the transport
   returns, writePump returns and closes the transport, readPump then fails and
   returns, and neither stays blocked for ever. *)
ObserverLifetime == ReadFailureCleansUp /\ ClosedQueueEndsPumps /\ WriterEndEndsReader

\* a client dropped for its full queue has both pumps returned although its
\* peer never closed: its read failed on the transport writePump closed
ObserverLifetimeWitness ==
    \E c \in Clients :
        /\ QueueClosed(c) /\ BothPumpsDone(c) /\ c \notin clients
        /\ conn[c].send = <<>>

-----------------------------------------------------------------------------
(* The size of a decay step *)

\* the entries of a heat map
HeatEntries(h) == UNION {{<<p, c>> : c \in DOMAIN h[p]} : p \in DOMAIN h}

\* heat moves by 0.05 toward 1.0 and stops at 1.0
FlatStep(before, after) ==
    /\ before >= Neutral + RecoveryRate => after = before - RecoveryRate
    /\ before <= Neutral - RecoveryRate => after = before + RecoveryRate
    /\ (before > Neutral - RecoveryRate /\ before < Neutral + RecoveryRate) => after = Neutral

\* heat moves by 5% of its distance to 1.0: after = before - 0.05 x (before - 1.0),
\* compared in ten-thousandths and to within one hundredth
DistanceStep(before, after) ==
    LET exact == 100 * before - RecoveryRate * (before - Neutral)
    IN 100 * after - exact < 100 /\ exact - 100 * after < 100

TickBy(Moved(_, _)) ==
    Step("tick", "ok") =>
        /\ DOMAIN Market'.SourceHeat = DOMAIN Market.SourceHeat
        /\ DOMAIN Market'.DestHeat = DOMAIN Market.DestHeat
        /\ \A e \in HeatEntries(Market.SourceHeat) :
               /\ e[2] \in DOMAIN Market'.SourceHeat[e[1]]
               /\ Moved(Market.SourceHeat[e[1]][e[2]], Market'.SourceHeat[e[1]][e[2]])
        /\ \A e \in HeatEntries(Market.DestHeat) :
               /\ e[2] \in DOMAIN Market'.DestHeat[e[1]]
               /\ Moved(Market.DestHeat[e[1]][e[2]], Market'.DestHeat[e[1]][e[2]])

(* C26: each tick moves every heat value toward 1.0 by 5% of its current
   distance to 1.0 (new h = h - 0.05 x (h - 1.0)), never past 1.0. *)
TickMovesFivePercent == [][TickBy(DistanceStep)]_vars

(* C26, as the code has it: each tick moves every heat value toward 1.0 by the
   fixed amount 0.05, whatever its distance, and a value nearer than 0.05 to
   1.0 becomes exactly 1.0. *)
TickMovesFlat == [][TickBy(FlatStep)]_vars

\* a tick has taken a value more than 0.10 away from 1.0 one step nearer
TickMovesFlatWitness ==
    /\ Was("tick", "ok")
    /\ \E e \in HeatEntries(Market.SourceHeat) :
           Market.SourceHeat[e[1]][e[2]] >= Neutral + 2 * RecoveryRate
    /\ \E e \in HeatEntries(Market.DestHeat) :
           Market.DestHeat[e[1]][e[2]] <= Neutral - 2 * RecoveryRate

-----------------------------------------------------------------------------
(* Heat below neutral *)

(* C27: in every reachable state every value stored in SourceHeat and DestHeat
   is at least 1.0: heat starts at 1.0, acceptances and deliveries only raise
   it, and decay never takes it below neutral. *)
HeatNeverBelowNeutral ==
    /\ \A e \in HeatEntries(Market.SourceHeat) : Market.SourceHeat[e[1]][e[2]] >= Neutral
    /\ \A e \in HeatEntries(Market.DestHeat) : Market.DestHeat[e[1]][e[2]] >= Neutral

-----------------------------------------------------------------------------
(* The two critical sections of a replenish *)

\* MarketTick returns with the lock released and the scan still to come
TickIsItsOwnSection ==
    Step("tick", "ok") =>
        /\ DataLock = "free" /\ DataLock' = "free"
        /\ \E p \in DOMAIN pc : pc[p] # "scan" /\ pc'[p] = "scan"
        /\ AvailableContracts' = AvailableContracts

\* the scan takes the lock once the tick has returned, and the counts it works
\* from are those of the boards at that moment
ScanReadsInside ==
    Step("scan", "begin") =>
        /\ DataLock = "free" /\ DataLock' # "free" /\ pc[DataLock'] = "scan"
        /\ scan'.before = BoardCounts

\* a step of a scan that raises a count leaves it within the maximum
ScanKeepsMax ==
    Scanning =>
        \A planet \in SeqToSet(CurrentUniverse.Planets) : \A type \in {"cargo", "passenger"} :
            CountNow(planet.Key, type) > CountType(Board(planet.Key), type)
                => CountNow(planet.Key, type) <= TargetsOf(planet, type).max

(* C28: a replenish runs its tick and its board scan as two separate exclusive
   critical sections, so another operation can run between them; the scan
   computes needed = target - count from counts read inside its own critical
   section, so under no interleaving does a replenish raise a board's count of
   a type above the maximum configured for the location. *)
ReplenishKeepsMax == [][TickIsItsOwnSection /\ ScanReadsInside /\ ScanKeepsMax]_vars

\* the heartbeat's scan has just filled a cargo board to its maximum while the
\* replenish of a reload stands between its tick and its scan
ReplenishKeepsMaxWitness ==
    /\ DataLock = "heartbeat" /\ pc.heartbeat = "scan"
    /\ pc.reload = "scan"
    /\ Was("scan", "cargoJob")
    /\ \E planet \in SeqToSet(CurrentUniverse.Planets) :
           /\ CargoTargets(planet).max > 1
           /\ CountType(Board(planet.Key), "cargo") = CargoTargets(planet).max

-----------------------------------------------------------------------------
(* The quote and the trip *)

\* a quote step writes nothing but the answer
QuoteFrame ==
    (\E res \in {"ok", "notFound", "panic"} : Step("quote", res)) =>
        UNCHANGED <<worldVars, DataLock, pc, scan, request, env, events, clash, pulse, hubVars>>

\* a travel request to destKey issued now ends with res
TravelEnds(destKey, res) == ENABLED (HandleTravel(destKey) /\ last'.res = res)

\* the fuel a successful travel to destKey issued now takes
TravelTakes(destKey, fuel) ==
    ENABLED (HandleTravel(destKey) /\ last'.res = "ok" /\ PlayerShip'.Fuel = PlayerShip.Fuel - fuel)

\* the state right after a quote is the state the quote was asked in, with the
\* answer in last: the answer agrees with what a travel would do from here
QuoteAnswer ==
    /\ Was("quote", "notFound") =>
           /\ GetPlanet(last.arg[1]) = Nil
           /\ TravelEnds(last.arg[1], "notFound")
           /\ ~TravelEnds(last.arg[1], "ok") /\ ~TravelEnds(last.arg[1], "fuel")
    /\ Was("quote", "ok") =>
           LET destKey == last.arg[1]
               resp == last.arg[2]
               current == GetPlanet(PlayerShip.LocationKey)
               dest == GetPlanet(destKey)
           IN /\ dest # Nil
              /\ ~TravelEnds(destKey, "notFound")
              /\ resp.Distance = CalculateDistance(current.Coordinates, dest.Coordinates)
              /\ resp.BurnRate = CalculateCurrentBurn
              /\ resp.FuelCost = resp.Distance * resp.BurnRate
              /\ resp.CanAfford <=> ~TravelEnds(destKey, "fuel")
              /\ events < MaxEvents =>
                     /\ resp.CanAfford <=> TravelEnds(destKey, "ok")
                     /\ resp.CanAfford => TravelTakes(destKey, resp.FuelCost)

(* C29: travel-quote mutates nothing, and in any state its answer agrees with
   travel: for a known destination it reports the distance, burn rate and fuel
   cost travel would use, and can_afford is true exactly when a travel request
   to that destination issued in the same state would succeed; for an unknown
   destination both report NotFound. *)
TravelQuoteAgrees == []QuoteAnswer /\ [][QuoteFrame]_vars

\* a quote has just said of a loaded ship that a trip to another planet
\* cannot be afforded
TravelQuoteAgreesWitness ==
    /\ Was("quote", "ok")
    /\ ~last.arg[2].CanAfford
    /\ last.arg[2].Distance > 0
    /\ last.arg[2].BurnRate > 100
    /\ PlayerShip.ActiveContracts # <<>>

-----------------------------------------------------------------------------
(* The price of a refuel *)

\* the fuel missing and its price before the step
RefuelNeeded == PlayerShip.MaxFuel - PlayerShip.Fuel
RefuelCost == (RefuelNeeded \div 100) * CurrentUniverse.BalanceConfig.FuelCostPerUnit

RefuelPost ==
    /\ Step("refuel", "ok") =>
           /\ RefuelNeeded > 0 /\ PlayerShip.Credits >= RefuelCost
           /\ PlayerShip' = [PlayerShip EXCEPT !.Fuel = PlayerShip.MaxFuel,
                                               !.Credits = PlayerShip.Credits - RefuelCost]
           /\ UNCHANGED <<CurrentUniverse, AvailableContracts, Market>>
    /\ Step("refuel", "full") => (RefuelNeeded <= 0 /\ UNCHANGED worldVars)
    /\ Step("refuel", "credits") =>
           (RefuelNeeded > 0 /\ PlayerShip.Credits < RefuelCost /\ UNCHANGED worldVars)

(* C30: a refuel with fuelNeeded = maxFuel - fuel > 0 and credits >= cost,
   where cost = (fuelNeeded / 100, integer division) x fuelCostPerUnit, sets
   fuel to maxFuel and takes exactly cost from the credits, changing nothing
   else; a refuel fails with no change when fuelNeeded <= 0 or credits < cost. *)
RefuelChargesByHundreds == [][RefuelPost]_vars

\* a refuel has just filled the tank of a ship that carries contracts and has
\* paid for it
RefuelChargesByHundredsWitness ==
    /\ Was("refuel", "ok")
    /\ PlayerShip.Fuel = PlayerShip.MaxFuel
    /\ PlayerShip.Credits < CurrentUniverse.BalanceConfig.StartingCredits
    /\ PlayerShip.ActiveContracts # <<>>

-----------------------------------------------------------------------------
(* The contracts on the boards *)

\* the quantity of a contract is what its generator draws
QuantityOfType(c) ==
    /\ c.Type \in {"cargo", "passenger"}
    /\ c.Type = "cargo" => (c.Quantity >= 5 /\ c.Quantity <= 25)
    /\ c.Type = "passenger" => c.Quantity = 1

\* every contract on a board has the board's key as origin, another key out of
\* `keys` as destination and a quantity of its type
BoardsHold(keys) ==
    \A L \in DOMAIN AvailableContracts : \A i \in 1..Len(AvailableContracts[L]) :
        LET c == AvailableContracts[L][i] IN
        /\ c.OriginKey = L
        /\ c.DestinationKey # L
        /\ c.DestinationKey \in keys
        /\ QuantityOfType(c)

(* C31: in every reachable state every contract on the board of location L has
   origin key L and a destination key that is a location different from L;
   cargo contracts have a quantity in [5, 25], passenger contracts exactly 1. *)
BoardContractsWellFormed == BoardsHold(PlanetKeys(CurrentUniverse))

\* the same with the locations of every universe the file has held
BoardContractsAsGenerated == BoardsHold(UNION {PlanetKeys(U) : U \in env.files})

-----------------------------------------------------------------------------
(* The payout of a generated contract *)

\* the contract the generator has appended in this step
Generated == AvailableContracts'[Origin.Key][Len(AvailableContracts'[Origin.Key])]

\* distance x distancePayoutMultiplier + commodityBaseValue x quantity / 2
BasePayoutOf(c) ==
    CalculateDistance(GetPlanet(c.OriginKey).Coordinates, GetPlanet(c.DestinationKey).Coordinates)
        * CurrentUniverse.BalanceConfig.DistancePayoutMult
    + (GetCommodity(c.ItemKey).BaseValue * c.Quantity) \div 2

\* base x (1 / heat) cut to an integer, heat in hundredths
ScaledBy(base, heat) == (base * 100) \div heat

\* the heats a destination entry of a commodity can have here
HeatRange == Neutral..(Neutral + DeliveryImpact * 25 * MaxEvents)

CargoPayoutPost ==
    Step("scan", "cargoJob") =>
        LET c == Generated
            heat == Market.DestHeat[c.DestinationKey][c.ItemKey]
        IN /\ c.Type = "cargo"
           /\ c.Payout = ScaledBy(BasePayoutOf(c), heat)
           /\ \A other \in HeatRange :
                  /\ other > heat => ScaledBy(BasePayoutOf(c), other) <= c.Payout
                  /\ other < heat => ScaledBy(BasePayoutOf(c), other) >= c.Payout

PassengerPayoutPost ==
    Step("scan", "paxJob") =>
        LET c == Generated
        IN /\ c.Type = "passenger"
           /\ c.Payout =
                  CalculateDistance(GetPlanet(c.OriginKey).Coordinates,
                                    GetPlanet(c.DestinationKey).Coordinates) * 15
                  + CurrentUniverse.PassengerConfig.BaseTicketPrice

(* C32: the payout of a generated cargo contract is (distance x
   distancePayoutMultiplier + commodityBaseValue x quantity / 2) scaled by
   1 / DestHeat[destination][commodity] as read at generation, so that for the
   same route, commodity and quantity a higher destination heat never gives a
   higher payout; the payout of a generated passenger contract is distance x 15
   + baseTicketPrice whatever the heat values are. *)
PayoutFollowsHeat == [][CargoPayoutPost /\ PassengerPayoutPost]_vars

\* a cargo contract has just been generated for a destination whose market is
\* saturated, and pays less than its base payout
PayoutFollowsHeatWitness ==
    /\ Was("scan", "cargoJob")
    /\ Board(Origin.Key) # <<>>
    /\ LET c == Board(Origin.Key)[Len(Board(Origin.Key))]
       IN /\ c.Type = "cargo"
          /\ Market.DestHeat[c.DestinationKey][c.ItemKey] > Neutral
          /\ c.Payout < BasePayoutOf(c)
          /\ c.Payout > 0

-----------------------------------------------------------------------------
(* Dropping a contract *)

\* the sequence cs without its element at i
Without(cs, i) == [j \in 1..(Len(cs) - 1) |-> IF j < i THEN cs[j] ELSE cs[j + 1]]

DropPost ==
    Step("drop", "ok") =>
        LET id == last'.arg[1]
            held == PlayerShip.ActiveContracts
        IN /\ \E i \in 1..Len(held) :
                  /\ held[i].ID = id
                  /\ \A j \in 1..(i - 1) : held[j].ID # id
                  /\ PlayerShip' = [PlayerShip EXCEPT !.ActiveContracts = Without(held, i)]
           /\ AvailableContracts' = AvailableContracts
           /\ Market' = Market
           /\ CurrentUniverse' = CurrentUniverse
           /\ id \notin {c.ID : c \in UNION {SeqToSet(AvailableContracts'[k]) :
                                                 k \in DOMAIN AvailableContracts'}}

(* C33: a successful drop removes exactly the named contract from the ship's
   active contracts and destroys it: it is not put back on any board, credits
   and fuel are unchanged, SourceHeat and DestHeat are unchanged (the heat of
   the acceptance is not reverted), and the other active contracts keep their
   relative order. *)
DropDestroysContract == [][DropPost]_vars

\* the first of two contracts aboard has just been dropped: the other is still
\* aboard and the heat of the acceptance is still in the market
DropDestroysContractWitness ==
    /\ Was("drop", "ok")
    /\ Len(PlayerShip.ActiveContracts) = 1
    /\ PlayerShip.ActiveContracts[1].ID[2] > last.arg[1][2]
    /\ \E p \in DOMAIN Market.SourceHeat : \E c \in DOMAIN Market.SourceHeat[p] :
           Market.SourceHeat[p][c] > Neutral

-----------------------------------------------------------------------------
(* Contracts aboard and the place of the ship *)

(* C34: in every reachable state the ship holds no active contract whose
   destination is the ship's current location: a contract can only be accepted
   at its origin, which differs from its destination, and every arrival
   delivers all contracts bound for the new location. *)
NoContractForHere ==
    \A i \in 1..Len(PlayerShip.ActiveContracts) :
        PlayerShip.ActiveContracts[i].DestinationKey # PlayerShip.LocationKey

\* the ship has just arrived away from planet_prime and still carries a
\* contract, bound for elsewhere
NoContractForHereWitness ==
    /\ Was("travel", "ok")
    /\ PlayerShip.LocationKey # Prime
    /\ PlayerShip.ActiveContracts # <<>>

-----------------------------------------------------------------------------
(* The tank *)

(* C35: in every reachable state 0 <= Ship.Fuel <= Ship.MaxFuel: travel only
   debits fuel it has checked to be in the tank, and refuel sets the fuel to
   exactly MaxFuel. *)
FuelWithinTank == PlayerShip.Fuel >= 0 /\ PlayerShip.Fuel <= PlayerShip.MaxFuel

\* the ship has just arrived with less fuel in its tank than the trip took
FuelWithinTankWitness ==
    /\ Was("travel", "ok")
    /\ PlayerShip.MaxFuel > 0
    /\ PlayerShip.Fuel < PlayerShip.MaxFuel - PlayerShip.Fuel
    /\ PlayerShip.Fuel < 500

-----------------------------------------------------------------------------
(* The credits *)

\* every payout offered or aboard is non-negative
PayoutsNonNegative == \A c \in LiveContracts : c.Payout >= 0

(* C36: in every reachable state Ship.Credits >= 0, given non-negative
   starting credits, module costs, fuel cost and base values: refuel and
   buy-module only debit amounts they have checked to be available, and the
   payouts of deliveries are never negative. *)
CreditsNeverNegative == PlayerShip.Credits >= 0 /\ PayoutsNonNegative

\* a purchase or a refuel has just taken the last credits of the ship
CreditsNeverNegativeWitness ==
    /\ Was("buy", "ok") \/ Was("refuel", "ok")
    /\ PlayerShip.Credits = 0
    /\ PlayerShip.LocationKey # ""

-----------------------------------------------------------------------------
(* The queue of a client, open and closed *)

\* a client is in the set only while its queue is open, and no queue is closed twice
InSetOnlyWhileOpen ==
    \A c \in Clients :
        /\ conn[c].closed <= 1
        /\ c \in clients => conn[c].closed = 0

\* nothing is sent on a closed queue: it can only be drained; and a closed
\* client never comes back into the set
NoSendAfterClose ==
    \A c \in Clients :
        conn[c].closed > 0 =>
            /\ Len(conn'[c].send) <= Len(conn[c].send)
            /\ conn'[c].closed = conn[c].closed
            /\ c \notin clients'

(* C37: under any interleaving of register, unregister (also the late
   unregister of a readPump whose client was already dropped) and broadcast
   events, the hub closes the queue of a client at most once and never sends on
   a queue after closing it: a client is in the hub's set only while its queue
   is open. *)
QueueClosedOnceNeverUsed == []InSetOnlyWhileOpen /\ [][NoSendAfterClose]_vars

\* a client's queue was closed once, full, and its readPump has been through
\* unregister since; the other client is still registered with messages queued
QueueClosedOnceNeverUsedWitness ==
    \E c1, c2 \in Clients :
        /\ c1 \notin clients
        /\ conn[c1].closed = 1
        /\ Len(conn[c1].send) = QueueCap
        /\ conn[c1].reader = "done"
        /\ c2 \in clients
        /\ conn[c2].send # <<>>

-----------------------------------------------------------------------------
(* Waiting for the lock *)

\* the lock is taken only when it is free, and a goroutine that holds it takes
\* its steps without asking for it again: every step taken while the lock is
\* held is the holder's and leaves the lock with it or frees it
NoLockWhileHeld ==
    DataLock # "free" =>
        /\ DataLock' \in {DataLock, "free"}
        /\ pc'.handler # "lock" => pc.handler # "lock"

\* every goroutine at a Lock() gets the lock and gives it back
EveryLockReturns ==
    /\ \A p \in {"main", "reload", "heartbeat"} :
           (pc[p] \in {"tick", "scan"}) ~> (pc[p] \in {"serve", "idle"})
    /\ (pc.handler # "idle") ~> (pc.handler = "idle")
    /\ (DataLock # "free") ~> (DataLock = "free")

(* C38: no operation asks for the state lock while it holds it: the market
   updates inside accept and travel run under the caller's exclusive
   acquisition without locking again, so with concurrent handlers, the
   heartbeat and reloads every operation that asks for the lock eventually
   gets it and releases it. *)
LockNeverDeadlocks == [][NoLockWhileHeld]_vars /\ EveryLockReturns

\* an accept waits at Lock() while the heartbeat's scan holds the lock and a
\* reload waits for its own scan
LockNeverDeadlocksWitness ==
    /\ pc.handler = "lock"
    /\ DataLock = "heartbeat"
    /\ pc.reload = "scan"


-----------------------------------------------------------------------------
\* C39: every call of ReplenishMarket returns and releases the lock it took
\* for its board scan, in every loaded world with at least one planet and one
\* commodity: the destination loops of the two generators are always left.
ReplenishReturns ==
    \A p \in {"main", "reload", "heartbeat"} :
        (DataLock = p /\ pc[p] = "scan") ~> (DataLock # p)

\* the generator is inside its destination loop and no draw leaves it
InDestinationLoop ==
    /\ Scanning
    /\ scan.phase \in {"genCargo", "genPax"} /\ scan.k > 0
    /\ Destinations(Origin) = {}

\* C39, on a world with another planet to go to: the scan is never stuck in a
\* destination loop
DestinationLoopIsLeft == Len(CurrentUniverse.Planets) >= 2 => ~InDestinationLoop

\* ReplenishMarket is in the destination loop of a one-planet world
ReplenishStuck ==
    /\ Len(CurrentUniverse.Planets) = 1 /\ Len(CurrentUniverse.Commodities) >= 1
    /\ InDestinationLoop
    /\ ~ENABLED (GenerateCargoJob \/ GeneratePassengerJob)


-----------------------------------------------------------------------------
\* C40: in every state after the first load, also after a reload with another
\* list of planets, PlayerShip.LocationKey is the key of a planet of
\* CurrentUniverse, so that HandleTravel and HandleTravelQuote find the planet
\* the ship is at.
ShipInCatalog ==
    PlayerShip.LocationKey # "" => GetPlanet(PlayerShip.LocationKey) # Nil

\* C40, between two changes of the list of planets: a load that resets the ship
\* and every trip leave the ship at a planet of CurrentUniverse
ShipPlacedInCatalog ==
    [][(GetPlanet(PlayerShip.LocationKey) # Nil \/ PlayerShip.LocationKey = "")
         /\ (CurrentUniverse' = CurrentUniverse \/ PlayerShip.LocationKey = "")
       => ShipInCatalog']_vars

\* a reload has left the ship at a planet the new file does not have, and
\* HandleTravel has dereferenced the nil it got for it
ShipOffCatalog ==
    /\ GetPlanet(PlayerShip.LocationKey) = Nil
    /\ PlayerShip.LocationKey # ""
    /\ Was("travel", "panic")

====
